---- MODULE Spec2Model ----
(***************************************************************************)
(* serde-gff: the assembling writer (ser/mod.rs) and the pull tokenizer    *)
(* (parser/mod.rs, parser/states.rs) over a byte-exact GFF file.           *)
(*                                                                         *)
(* A serde driver feeds the Serializer one call at a time; to_vec writes   *)
(* the collected pools as bytes; Parser::new reads the header of those     *)
(* bytes and next_token walks them.                                        *)
(***************************************************************************)
EXTENDS Integers, Sequences, FiniteSets, TLC

VARIABLES
  pc,       \* position of the caller: "start", "ser", "serialized", "written", "parse", ...
  ser,      \* Serializer: structs, fields, labels, field_data, field_indices, list_indices
  stack,    \* open StructSerializer / ListSerializer objects, innermost last
  events,   \* the serde calls made so far: the value tree in pre-order
  file,     \* Vec<u8> produced by to_vec, the source of the Parser
  header,   \* Parser.header
  pos,      \* position of Parser.reader
  state,    \* Parser.state
  result,   \* what the last next_token / Iterator::next call returned
  trace,    \* every token returned so far with the reader position after it
  text,     \* a name given to Label::from_bytes (str::parse::<Label>)
  made,     \* what Label::from_bytes returned for it
  shown,    \* what Label::as_str returned for the label made
  input,    \* a Rust value given to to_writer as a whole
  outcome,  \* how to_writer ended for it: "Ok", "Err" or "panic"
  peeked,   \* Deserializer.peeked: <<>> for None, <<token>> for Some(token)
  taken     \* the tokens Deserializer::next_token has returned so far

vars == <<pc, ser, stack, events, file, header, pos, state, result, trace,
          text, made, shown, input, outcome, peeked, taken>>

\* the variables of the writer and the parser, and those of a label on its own
filevars == <<ser, stack, events, file, header, pos, state, result, trace>>
labelvars == <<text, made, shown>>
\* to_writer applied to a whole value, and the lookahead of the Deserializer
valuevars == <<input, outcome>>
devars == <<peeked, taken>>

----------------------------------------------------------------------------
(* Bounds of the explored value trees *)

MaxStructs == 4
MaxFields == 4
MaxStructLen == 2
MaxListLen == 2
MaxLists == 2
MaxTokens == 24
MaxSeqLen == 2

----------------------------------------------------------------------------
(* Bytes and little-endian integers (byteorder LE) *)

\* n as w little-endian bytes; a negative n gives its two's complement
RECURSIVE LE(_, _)
LE(n, w) == IF w = 0 THEN <<>> ELSE <<n % 256>> \o LE(n \div 256, w - 1)

RECURSIVE FromLE(_)
FromLE(bytes) ==
  IF bytes = <<>> THEN 0 ELSE Head(bytes) + 256 * FromLE(Tail(bytes))

\* the signed value of little-endian two's complement bytes
RECURSIVE FromLESigned(_)
FromLESigned(bytes) ==
  IF Len(bytes) = 1
  THEN IF Head(bytes) >= 128 THEN Head(bytes) - 256 ELSE Head(bytes)
  ELSE Head(bytes) + 256 * FromLESigned(Tail(bytes))

RECURSIVE Zeros(_)
Zeros(n) == IF n = 0 THEN <<>> ELSE <<0>> \o Zeros(n - 1)

RECURSIVE Concat(_)
Concat(seqs) == IF seqs = <<>> THEN <<>> ELSE Head(seqs) \o Concat(Tail(seqs))

RECURSIVE SumLen(_, _)
\* sum of Len(v) + extra over the lists of vec
SumLen(vec, extra) ==
  IF vec = <<>> THEN 0 ELSE Len(Head(vec)) + extra + SumLen(Tail(vec), extra)

----------------------------------------------------------------------------
(* Field types, raw.rs FieldType (repr u32) *)

FieldType ==
  [Byte |-> 0, Char |-> 1, Word |-> 2, Short |-> 3, Dword |-> 4, Int |-> 5,
   Dword64 |-> 6, Int64 |-> 7, Float |-> 8, Double |-> 9, String |-> 10,
   ResRef |-> 11, LocString |-> 12, Void |-> 13, Struct |-> 14, List |-> 15]

TagName ==
  <<"Byte", "Char", "Word", "Short", "Dword", "Int", "Dword64", "Int64",
    "Float", "Double", "String", "ResRef", "LocString", "Void">>

----------------------------------------------------------------------------
(* Values handed to the writer by the driver.  A value is a record of a    *)
(* tag, a number (scalars) and a byte string (String, Void).               *)

SimpleValue(tag, val, bytes) == [tag |-> tag, val |-> val, bytes |-> bytes]

\* the fields the driver chooses from: a name with a simple value, the names
\* of struct fields, the names of list fields
SimpleFields ==
  { <<<<97>>, SimpleValue("Char", -8, <<>>)>>,
    <<<<98, 99>>, SimpleValue("Int64", -3, <<>>)>>,
    <<<<98, 99>>, SimpleValue("String", 0, <<104, 105, 33>>)>> }
StructKeys == { <<97>> }
ListKeys == { <<98, 99>> }

NoValue == SimpleValue("None", 0, <<>>)

----------------------------------------------------------------------------
(* label.rs *)

LabelLen == 16

\* a from_bytes that refuses a name of 16 bytes too
from_bytes_refuses_16(bytes) ==
  IF Len(bytes) >= LabelLen
  THEN [ok |-> FALSE, err |-> <<"TooLongLabel", Len(bytes)>>, label |-> <<>>]
  ELSE [ok |-> TRUE, err |-> <<>>, label |-> bytes \o Zeros(LabelLen - Len(bytes))]

\* a from_bytes that cuts a long name to 16 bytes
from_bytes_cuts(bytes) ==
  [ok |-> TRUE, err |-> <<>>,
   label |-> [i \in 1..LabelLen |-> IF i <= Len(bytes) THEN bytes[i] ELSE 0]]

\* Label::from_bytes
from_bytes(bytes) ==
  IF Len(bytes) > LabelLen
  THEN [ok |-> FALSE, err |-> <<"TooLongLabel", Len(bytes)>>, label |-> <<>>]
  ELSE [ok |-> TRUE, err |-> <<>>, label |-> bytes \o Zeros(LabelLen - Len(bytes))]

RECURSIVE as_str_len(_, _)
as_str_len(label, i) ==
  IF i > Len(label) THEN Len(label)
  ELSE IF label[i] = 0 THEN i - 1
  ELSE as_str_len(label, i + 1)

\* Label::as_str: the bytes before the first NUL, all 16 when there is none
as_str(label) == SubSeq(label, 1, as_str_len(label, 1))

----------------------------------------------------------------------------
(* ser/mod.rs: intermediate representation *)

NoFields == [kind |-> "NoFields", index |-> 0, list |-> 0, fields |-> 0]
OneField(index) == [kind |-> "OneField", index |-> index, list |-> 0, fields |-> 1]
MultiField(list, fields) ==
  [kind |-> "MultiField", index |-> 0, list |-> list, fields |-> fields]

\* SimpleValueRef: an inline scalar or an offset into field_data
SimpleValueRef(tag, val) == [tag |-> tag, val |-> val]
NoRef == SimpleValueRef("None", 0)

FieldSimple(label, value) ==
  [kind |-> "Simple", label |-> label, value |-> value, struct_ |-> 0, list |-> 0]
FieldStruct(label, struct_) ==
  [kind |-> "Struct", label |-> label, value |-> NoRef, struct_ |-> struct_, list |-> 0]
FieldList(label, list) ==
  [kind |-> "List", label |-> label, value |-> NoRef, struct_ |-> 0, list |-> list]

\* Serializer::default
Serializer ==
  [structs |-> <<>>, fields |-> <<>>, labels |-> <<>>, field_data |-> <<>>,
   field_indices |-> <<>>, list_indices |-> <<>>]

\* IndexSet::get_full: position (from 0) of the label in insertion order
IndexOf(labels, label) ==
  (CHOOSE i \in 1..Len(labels) : labels[i] = label) - 1

\* an add_label that pushes the label without looking for it in the pool
add_label_always_appends(s, key) ==
  LET parsed == from_bytes(key)
  IN IF ~parsed.ok
     THEN [ok |-> FALSE, err |-> parsed.err, ser |-> s, index |-> 0]
     ELSE [ok |-> TRUE, err |-> <<>>,
           ser |-> [s EXCEPT !.labels = Append(@, parsed.label)],
           index |-> Len(s.labels)]

\* Serializer::add_label
add_label(s, key) ==
  LET parsed == from_bytes(key)
      labels == IF \E i \in 1..Len(s.labels) : s.labels[i] = parsed.label
                THEN s.labels
                ELSE Append(s.labels, parsed.label)
  IN IF ~parsed.ok
     THEN [ok |-> FALSE, err |-> parsed.err, ser |-> s, index |-> 0]
     ELSE [ok |-> TRUE, err |-> <<>>,
           ser |-> [s EXCEPT !.labels = labels],
           index |-> IndexOf(labels, parsed.label)]

\* an add_struct that keeps a placeholder for a field in every struct
add_struct_never_empty(s, fields) ==
  LET index == Len(s.structs)
      list == Len(s.field_indices)
  IN [index |-> index, list |-> list,
      ser |-> IF fields <= 1 THEN [s EXCEPT !.structs = Append(@, OneField(0))]
              ELSE [s EXCEPT !.field_indices = Append(@, <<>>),
                             !.structs = Append(@, MultiField(list, fields))]]

\* Serializer::add_struct: the new struct's index, its field list index, the new state
add_struct(s, fields) ==
  LET index == Len(s.structs)
      list == Len(s.field_indices)
  IN [index |-> index, list |-> list,
      ser |-> CASE fields = 0 -> [s EXCEPT !.structs = Append(@, NoFields)]
                [] fields = 1 -> [s EXCEPT !.structs = Append(@, OneField(0))]
                [] OTHER      -> [s EXCEPT !.field_indices = Append(@, <<>>),
                                           !.structs = Append(@, MultiField(list, fields))]]

\* Serializer::add_list
add_list(s, label) ==
  LET list == Len(s.list_indices)
  IN [list |-> list,
      ser |-> [s EXCEPT !.list_indices = Append(@, <<>>),
                        !.fields = Append(@, FieldList(label, list))]]

\* a FieldSerializer::add_struct that refers to the struct after the new one
field_add_struct_next_index(s, label, fields) ==
  LET added == add_struct(s, fields)
  IN [added EXCEPT !.ser = [@ EXCEPT !.fields = Append(@, FieldStruct(label, added.index + 1))]]

\* FieldSerializer::add_struct
field_add_struct(s, label, fields) ==
  LET added == add_struct(s, fields)
  IN [added EXCEPT !.ser = [@ EXCEPT !.fields = Append(@, FieldStruct(label, added.index))]]

\* a serializer that takes the offset of an indirect value after writing it
serialize_simple_offset_after(s, label, v) ==
  CASE v.tag \in {"Byte", "Char", "Word", "Short", "Dword", "Int", "Float"} ->
         [s EXCEPT !.fields = Append(@, FieldSimple(label, SimpleValueRef(v.tag, v.val)))]
    [] v.tag \in {"Dword64", "Int64", "Double"} ->
         [s EXCEPT !.field_data = @ \o LE(v.val, 8),
                   !.fields = Append(@, FieldSimple(label,
                                SimpleValueRef(v.tag, Len(s.field_data) + 8)))]
    [] v.tag \in {"String", "Void"} ->
         [s EXCEPT !.field_data = @ \o LE(Len(v.bytes), 4) \o v.bytes,
                   !.fields = Append(@, FieldSimple(label,
                                SimpleValueRef(v.tag, Len(s.field_data) + 4 + Len(v.bytes))))]

\* a serializer that writes the length of a String or Void as one byte
serialize_simple_u8_length(s, label, v) ==
  LET offset == Len(s.field_data)
  IN CASE v.tag \in {"Byte", "Char", "Word", "Short", "Dword", "Int", "Float"} ->
            [s EXCEPT !.fields = Append(@, FieldSimple(label, SimpleValueRef(v.tag, v.val)))]
       [] v.tag \in {"Dword64", "Int64", "Double"} ->
            [s EXCEPT !.field_data = @ \o LE(v.val, 8),
                      !.fields = Append(@, FieldSimple(label, SimpleValueRef(v.tag, offset)))]
       [] v.tag \in {"String", "Void"} ->
            [s EXCEPT !.field_data = @ \o LE(Len(v.bytes), 1) \o v.bytes,
                      !.fields = Append(@, FieldSimple(label, SimpleValueRef(v.tag, offset)))]

\* FieldSerializer::serialize_i8 .. serialize_bytes (primitive! and complex!)
serialize_simple(s, label, v) ==
  LET offset == Len(s.field_data)
  IN CASE v.tag \in {"Byte", "Char", "Word", "Short", "Dword", "Int", "Float"} ->
            [s EXCEPT !.fields = Append(@, FieldSimple(label, SimpleValueRef(v.tag, v.val)))]
       [] v.tag \in {"Dword64", "Int64", "Double"} ->
            [s EXCEPT !.field_data = @ \o LE(v.val, 8),
                      !.fields = Append(@, FieldSimple(label, SimpleValueRef(v.tag, offset)))]
       [] v.tag \in {"String", "Void"} ->
            [s EXCEPT !.field_data = @ \o LE(Len(v.bytes), 4) \o v.bytes,
                      !.fields = Append(@, FieldSimple(label, SimpleValueRef(v.tag, offset)))]

\* a serialize_field that leaves the placeholder of a one-field struct alone
update_struct_keeps_placeholder(s, struct_index, fields_index, index) ==
  LET struct_ == s.structs[struct_index + 1]
  IN IF struct_.kind = "MultiField"
     THEN [s EXCEPT !.field_indices[fields_index + 1] = Append(@, index)]
     ELSE s

\* the tail of StructSerializer::serialize_field: update the struct record
\* with the index the field got
update_struct(s, struct_index, fields_index, index) ==
  LET struct_ == s.structs[struct_index + 1]
  IN CASE struct_.kind = "NoFields" -> s
       [] struct_.kind = "OneField" ->
            [s EXCEPT !.structs[struct_index + 1] = OneField(index)]
       [] struct_.kind = "MultiField" ->
            [s EXCEPT !.field_indices[fields_index + 1] = Append(@, index)]

----------------------------------------------------------------------------
(* ser/mod.rs: finalization *)

RECURSIVE Offsets(_, _, _)
Offsets(vec, extra, last_offset) ==
  IF vec = <<>> THEN <<>>
  ELSE <<last_offset>>
       \o Offsets(Tail(vec), extra, last_offset + (Len(Head(vec)) + extra) * 4)

\* field-index offsets counted in indices instead of bytes
calc_field_offsets_in_indices(s) ==
  [k \in 1..Len(s.field_indices) |-> Offsets(s.field_indices, 0, 0)[k] \div 4]

\* list offsets that forget the count stored in front of every list
calc_list_offsets_without_counts(s) == Offsets(s.list_indices, 0, 0)

\* Serializer::calc_field_offsets
calc_field_offsets(s) == Offsets(s.field_indices, 0, 0)

\* Serializer::calc_list_offsets
calc_list_offsets(s) == Offsets(s.list_indices, 1, 0)

\* Struct::into_raw
struct_into_raw(struct_, offsets) ==
  CASE struct_.kind = "NoFields"   -> [tag |-> 0, offset |-> 0, fields |-> 0]
    [] struct_.kind = "OneField"   -> [tag |-> 0, offset |-> struct_.index, fields |-> 1]
    [] struct_.kind = "MultiField" ->
         [tag |-> 0, offset |-> offsets[struct_.list + 1], fields |-> struct_.fields]

\* SimpleValueRef::into_raw
value_into_raw(value, label) ==
  LET data ==
        CASE value.tag = "Byte"  -> LE(value.val, 1) \o Zeros(3)
          [] value.tag = "Char"  -> LE(value.val, 1) \o Zeros(3)
          [] value.tag = "Word"  -> LE(value.val, 2) \o Zeros(2)
          [] value.tag = "Short" -> LE(value.val, 2) \o Zeros(2)
          [] value.tag = "Int"   -> LE(value.val, 4)
          [] OTHER               -> LE(value.val, 4)
  IN [tag |-> FieldType[value.tag], label |-> label, data |-> data]

\* Field::into_raw
field_into_raw(field, offsets) ==
  CASE field.kind = "Simple" -> value_into_raw(field.value, field.label)
    [] field.kind = "Struct" ->
         [tag |-> FieldType.Struct, label |-> field.label, data |-> LE(field.struct_, 4)]
    [] field.kind = "List" ->
         [tag |-> FieldType.List, label |-> field.label, data |-> LE(offsets[field.list + 1], 4)]

Section(offset, count) == [offset |-> offset, count |-> count]

HeaderSize == 56
StructSize == 12
FieldSize == 12

Signature == <<71, 70, 70, 32>>
V3_2 == <<86, 51, 46, 50>>

\* a make_header that counts the indices of the last two sections, not their bytes
make_header_counting_indices(s, signature, version) ==
  LET structs  == Section(HeaderSize, Len(s.structs))
      fields   == Section((structs.offset + structs.count * StructSize),
                          Len(s.fields))
      labels   == Section((fields.offset + fields.count * FieldSize),
                          Len(s.labels))
      data     == Section((labels.offset + labels.count * LabelLen),
                          Len(s.field_data))
      findices == Section((data.offset + data.count), SumLen(s.field_indices, 0))
      lindices == Section((findices.offset + findices.count), SumLen(s.list_indices, 1))
  IN [signature |-> signature, version |-> version,
      structs |-> structs, fields |-> fields, labels |-> labels,
      field_data |-> data, field_indices |-> findices, list_indices |-> lindices]

\* Serializer::make_header (Builder::add_section keeps the running offset)
make_header(s, signature, version) ==
  LET structs  == Section(HeaderSize, Len(s.structs))
      fields   == Section((structs.offset + structs.count * StructSize),
                          Len(s.fields))
      labels   == Section((fields.offset + fields.count * FieldSize),
                          Len(s.labels))
      data     == Section((labels.offset + labels.count * LabelLen),
                          Len(s.field_data))
      findices == Section((data.offset + data.count),
                          (SumLen(s.field_indices, 0) * 4))
      lindices == Section((findices.offset + findices.count),
                          (SumLen(s.list_indices, 1) * 4))
  IN [signature |-> signature, version |-> version,
      structs |-> structs, fields |-> fields, labels |-> labels,
      field_data |-> data, field_indices |-> findices, list_indices |-> lindices]

\* Section::write
section_write(section) == LE(section.offset, 4) \o LE(section.count, 4)

\* Header::write
header_write(h) ==
  h.signature \o h.version
  \o section_write(h.structs) \o section_write(h.fields) \o section_write(h.labels)
  \o section_write(h.field_data) \o section_write(h.field_indices)
  \o section_write(h.list_indices)

\* Serializer::write_structs
write_structs(s) ==
  LET offsets == calc_field_offsets(s)
  IN Concat([i \in 1..Len(s.structs) |->
       LET raw == struct_into_raw(s.structs[i], offsets)
       IN LE(raw.tag, 4) \o LE(raw.offset, 4) \o LE(raw.fields, 4)])

\* Serializer::write_fields
write_fields(s) ==
  LET offsets == calc_list_offsets(s)
  IN Concat([i \in 1..Len(s.fields) |->
       LET raw == field_into_raw(s.fields[i], offsets)
       IN LE(raw.tag, 4) \o LE(raw.label, 4) \o raw.data])

\* Serializer::write_indices
write_indices(indices) == Concat([i \in 1..Len(indices) |-> LE(indices[i], 4)])

\* Serializer::write
write(s, signature, version) ==
  header_write(make_header(s, signature, version))
  \o write_structs(s)
  \o write_fields(s)
  \o Concat(s.labels)
  \o s.field_data
  \o Concat([i \in 1..Len(s.field_indices) |-> write_indices(s.field_indices[i])])
  \o Concat([i \in 1..Len(s.list_indices) |->
       LE(Len(s.list_indices[i]), 4) \o write_indices(s.list_indices[i])])

----------------------------------------------------------------------------
(* header.rs, index.rs: the header and the typed indices *)

\* ReadBytesExt::read_u32::<LE> at byte offset at of the source. The integers
\* here are 32 bits wide: a u32 of 2^31 or more is held as that number less
\* 2^32, which keeps equal numbers equal and 0xFFFFFFFF - 1 = 0xFFFFFFFE
U32At(bytes, at) == FromLESigned(SubSeq(bytes, at + 1, at + 4))

\* Section::read
section_read(bytes, at) == Section(U32At(bytes, at), U32At(bytes, at + 4))

\* Header::read
header_read(bytes) ==
  [signature |-> SubSeq(bytes, 1, 4), version |-> SubSeq(bytes, 5, 8),
   structs |-> section_read(bytes, 8), fields |-> section_read(bytes, 16),
   labels |-> section_read(bytes, 24), field_data |-> section_read(bytes, 32),
   field_indices |-> section_read(bytes, 40), list_indices |-> section_read(bytes, 48)]

\* Header::token_count
token_count(h) ==
  LET size == (h.structs.count + h.list_indices.count) * 2
  IN IF size >= h.fields.count THEN size ELSE h.fields.count

\* a byte offset beyond the end of the source: every read there fails
PastEnd == Len(file) + 1

\* index!($name, $field, $multiplier): Index::offset of a simple index; an
\* index that lies beyond the source (among them the u32 of 2^31 or more)
\* gives an offset beyond its end
offset(section, multiplier, index) ==
  IF index < 0 \/ index > Len(file) THEN PastEnd
  ELSE section.offset + index * multiplier

\* index!($name, $field): Index::offset of a double index (self.0, self.1)
offset2(section, index) ==
  IF index[1] < 0 \/ index[1] > Len(file) \/ index[2] < 0 \/ index[2] > Len(file)
  THEN PastEnd
  ELSE section.offset + (index[1] + index[2] * 4)

\* impl Add<u32> for a double index
add(index, rhs) == <<index[1], index[2] + rhs>>

----------------------------------------------------------------------------
(* parser/mod.rs: tokens and lazily read values *)

Token(kind, tag, count, index, label, value) ==
  [kind |-> kind, tag |-> tag, count |-> count, index |-> index,
   label |-> label, value |-> value]

RootBegin(tag, count) == Token("RootBegin", tag, count, 0, 0, NoRef)
RootEnd == Token("RootEnd", 0, 0, 0, 0, NoRef)
StructBegin(tag, count) == Token("StructBegin", tag, count, 0, 0, NoRef)
StructEnd == Token("StructEnd", 0, 0, 0, 0, NoRef)
ItemBegin(tag, count, index) == Token("ItemBegin", tag, count, index, 0, NoRef)
ItemEnd == Token("ItemEnd", 0, 0, 0, 0, NoRef)
ListBegin(count) == Token("ListBegin", 0, count, 0, 0, NoRef)
ListEnd == Token("ListEnd", 0, 0, 0, 0, NoRef)
Label(label) == Token("Label", 0, 0, 0, label, NoRef)
Value(value) == Token("Value", 0, 0, 0, 0, value)
NoToken == Token("None", 0, 0, 0, 0, NoRef)

\* the tokens that open a struct and those that close one
BeginKinds == {"RootBegin", "StructBegin", "ItemBegin"}
EndKinds == {"RootEnd", "StructEnd", "ItemEnd"}

\* the result of a step of the parser: a token and the next state, or an
\* error; pos is where the step leaves the reader
Ok(token, next, at) ==
  [ok |-> TRUE, token |-> token, state |-> next, pos |-> at, err |-> <<>>]
Err(err, at) ==
  [ok |-> FALSE, token |-> NoToken, state |-> <<>>, pos |-> at, err |-> err]

\* a read of n bytes at byte offset at succeeds when the source has them
CanRead(at, n) == at >= 0 /\ n >= 0 /\ at <= Len(file) /\ n <= Len(file) - at

\* Parser::read_value_ref with the reader at byte offset at
read_value_ref(tag, at) ==
  CASE tag \in {0, 1} ->
         IF ~CanRead(at, 1) THEN Err(<<"Io">>, at)
         ELSE Ok(Value(SimpleValueRef(TagName[tag + 1],
                   IF tag = 0 THEN FromLE(SubSeq(file, at + 1, at + 1))
                   ELSE FromLESigned(SubSeq(file, at + 1, at + 1)))), <<>>, at + 1)
    [] tag \in {2, 3} ->
         IF ~CanRead(at, 2) THEN Err(<<"Io">>, at)
         ELSE Ok(Value(SimpleValueRef(TagName[tag + 1],
                   IF tag = 2 THEN FromLE(SubSeq(file, at + 1, at + 2))
                   ELSE FromLESigned(SubSeq(file, at + 1, at + 2)))), <<>>, at + 2)
    [] tag = 5 ->
         IF ~CanRead(at, 4) THEN Err(<<"Io">>, at)
         ELSE Ok(Value(SimpleValueRef("Int", FromLESigned(SubSeq(file, at + 1, at + 4)))),
                 <<>>, at + 4)
    [] tag \in {4, 6, 7, 8, 9, 10, 11, 12, 13} ->
         IF ~CanRead(at, 4) THEN Err(<<"Io">>, at)
         ELSE Ok(Value(SimpleValueRef(TagName[tag + 1], U32At(file, at))), <<>>, at + 4)
    [] OTHER ->
         IF ~CanRead(at, 4) THEN Err(<<"Io">>, at)
         ELSE Err(<<"UnknownValue", tag, U32At(file, at)>>, at + 4)

\* a read_label that leaves the reader behind the label it has read
read_label_stays(index, at) ==
  LET from == offset(header.labels, LabelLen, index)
  IN IF ~CanRead(from, LabelLen)
     THEN [ok |-> FALSE, label |-> <<>>, pos |-> from]
     ELSE [ok |-> TRUE, label |-> SubSeq(file, from + 1, from + LabelLen),
           pos |-> from + LabelLen]

\* Parser::read_label with the reader at byte offset at: the position is
\* saved before the read and restored after it
read_label(index, at) ==
  LET from == offset(header.labels, LabelLen, index)
  IN IF ~CanRead(from, LabelLen)
     THEN [ok |-> FALSE, label |-> <<>>, pos |-> from]
     ELSE [ok |-> TRUE, label |-> SubSeq(file, from + 1, from + LabelLen), pos |-> at]

\* Parser::read_bytes at byte offset from: a u32 length and that many bytes
read_bytes(from) ==
  LET size == U32At(file, from)
  IN IF ~CanRead(from, 4) \/ ~CanRead(from + 4, size)
     THEN [ok |-> FALSE, bytes |-> <<>>, pos |-> from]
     ELSE [ok |-> TRUE, bytes |-> SubSeq(file, from + 5, from + 4 + size),
           pos |-> from + 4 + size]

\* Parser::read_value (read_u64, read_i64, read_f64, read_string,
\* read_byte_buf) with the reader at byte offset at
read_value(value, at) ==
  LET from == offset(header.field_data, 1, value.val)
  IN CASE value.tag \in {"Byte", "Char", "Word", "Short", "Dword", "Int", "Float"} ->
            [ok |-> TRUE, value |-> SimpleValue(value.tag, value.val, <<>>), pos |-> at]
       [] value.tag \in {"Dword64", "Double"} ->
            IF ~CanRead(from, 8) THEN [ok |-> FALSE, value |-> NoValue, pos |-> from]
            ELSE [ok |-> TRUE, pos |-> from + 8,
                  value |-> SimpleValue(value.tag, FromLE(SubSeq(file, from + 1, from + 8)), <<>>)]
       [] value.tag = "Int64" ->
            IF ~CanRead(from, 8) THEN [ok |-> FALSE, value |-> NoValue, pos |-> from]
            ELSE [ok |-> TRUE, pos |-> from + 8,
                  value |-> SimpleValue(value.tag,
                              FromLESigned(SubSeq(file, from + 1, from + 8)), <<>>)]
       [] value.tag \in {"String", "Void"} ->
            LET read == read_bytes(from)
            IN [ok |-> read.ok, pos |-> read.pos,
                value |-> IF read.ok THEN SimpleValue(value.tag, 0, read.bytes) ELSE NoValue]

----------------------------------------------------------------------------
(* parser/states.rs *)

\* TokenEmitter data: Root, Struct, Item { index }
Root == [kind |-> "Root", index |-> 0]
Struct == [kind |-> "Struct", index |-> 0]
Item(index) == [kind |-> "Item", index |-> index]

\* TokenEmitter::begin
begin(data, tag, count) ==
  CASE data.kind = "Root"   -> RootBegin(tag, count)
    [] data.kind = "Struct" -> StructBegin(tag, count)
    [] data.kind = "Item"   -> ItemBegin(tag, count, data.index)

\* an emitter that closes every compound as a struct field
end_always_struct(data) == StructEnd

\* TokenEmitter::end
end(data) ==
  CASE data.kind = "Root"   -> RootEnd
    [] data.kind = "Struct" -> StructEnd
    [] data.kind = "Item"   -> ItemEnd

\* TokenEmitter::next: EndRoot, EndStruct or EndItem around the state to return to
emitter_next(data, next) ==
  [kind |-> CASE data.kind = "Root"   -> "EndRoot"
              [] data.kind = "Struct" -> "EndStruct"
              [] data.kind = "Item"   -> "EndItem",
   state |-> next, data |-> data]

Finish == [kind |-> "Finish"]

ReadStruct(index, next, data) == [index |-> index, state |-> next, data |-> data]
ReadLabel(index, next) == [kind |-> "ReadLabel", index |-> index, state |-> next]
ReadField(tag, next) == [kind |-> "ReadField", tag |-> tag, state |-> next]
ReadFields(index, count, next) ==
  [kind |-> "ReadFields", index |-> index, count |-> count, state |-> next]
ReadList(index, next) == [index |-> index, state |-> next]
ReadItems(index, count, next) ==
  [kind |-> "ReadItems", index |-> index, count |-> count, state |-> next]

\* a default state that reads the root again after it has ended
Start_again ==
  [kind |-> "Start", index |-> 0, data |-> Root,
   state |-> [kind |-> "Start", index |-> 0, state |-> Finish, data |-> Root]]

\* State::default: Start(ReadStruct::<Root>::default())
Start == [kind |-> "Start", index |-> 0, state |-> Finish, data |-> Root]

\* a ReadStruct::next that takes the offset of a one-field struct for an offset
\* into the field indices too
ReadStruct_next_always_indirect(self) ==
  LET at == offset(header.structs, StructSize, self.index)
      tag == U32At(file, at)
      index == U32At(file, at + 4)
      count == U32At(file, at + 8)
      next == emitter_next(self.data, self.state)
  IN IF ~CanRead(at, 12) THEN Err(<<"Io">>, at)
     ELSE Ok(begin(self.data, tag, count),
             IF count = 0 THEN next ELSE ReadFields(<<index, 0>>, count, next),
             at + 12)

\* ReadStruct::next
ReadStruct_next(self) ==
  LET at == offset(header.structs, StructSize, self.index)
      tag == U32At(file, at)
      index == U32At(file, at + 4)
      count == U32At(file, at + 8)
      next == emitter_next(self.data, self.state)
  IN IF ~CanRead(at, 12) THEN Err(<<"Io">>, at)
     ELSE Ok(begin(self.data, tag, count),
             CASE count = 0 -> next
               [] count = 1 -> ReadLabel(index, next)
               [] OTHER     -> ReadFields(<<index, 0>>, count, next),
             at + 12)

\* an EndStruct::next that drops the state it was given to return to
EndStruct_next_drops_next(self, at) == Ok(end(self.data), Finish, at)

\* EndStruct::next
EndStruct_next(self, at) == Ok(end(self.data), self.state, at)

\* ReadLabel::next
ReadLabel_next(self) ==
  LET at == offset(header.fields, FieldSize, self.index)
      tag == U32At(file, at)
      label == U32At(file, at + 4)
  IN IF ~CanRead(at, 8) THEN Err(<<"Io">>, at)
     ELSE Ok(Label(label), ReadField(tag, self.state), at + 8)

\* ReadList::next
ReadList_next(self) ==
  LET at == offset2(header.list_indices, self.index)
      count == U32At(file, at)
  IN IF ~CanRead(at, 4) THEN Err(<<"Io">>, at)
     ELSE Ok(ListBegin(count), ReadItems(add(self.index, 1), count, self.state), at + 4)

\* a ReadField::next that looks at the low four bits of the type code only
ReadField_next_low_bits(self, at) ==
  CASE self.tag % 16 = 14 ->
         IF ~CanRead(at, 4) THEN Err(<<"Io">>, at)
         ELSE ReadStruct_next(ReadStruct(U32At(file, at), self.state, Struct))
    [] self.tag % 16 = 15 ->
         IF ~CanRead(at, 4) THEN Err(<<"Io">>, at)
         ELSE ReadList_next(ReadList(<<U32At(file, at), 0>>, self.state))
    [] OTHER ->
         LET value == read_value_ref(self.tag % 16, at)
         IN IF value.ok THEN Ok(value.token, self.state, value.pos) ELSE value

\* ReadField::next: reads the 4 data bytes of the field at the reader's position
ReadField_next(self, at) ==
  CASE self.tag = 14 ->
         IF ~CanRead(at, 4) THEN Err(<<"Io">>, at)
         ELSE ReadStruct_next(ReadStruct(U32At(file, at), self.state, Struct))
    [] self.tag = 15 ->
         IF ~CanRead(at, 4) THEN Err(<<"Io">>, at)
         ELSE ReadList_next(ReadList(<<U32At(file, at), 0>>, self.state))
    [] OTHER ->
         LET value == read_value_ref(self.tag, at)
         IN IF value.ok THEN Ok(value.token, self.state, value.pos) ELSE value

\* ReadItems::next
ReadItems_next(self, at) ==
  IF self.count = 0 THEN Ok(ListEnd, self.state, at)
  ELSE LET from == offset2(header.list_indices, self.index)
           struc == U32At(file, from)
       IN IF ~CanRead(from, 4) THEN Err(<<"Io">>, from)
          ELSE ReadStruct_next(ReadStruct(struc,
                 ReadItems(add(self.index, 1), self.count - 1, self.state),
                 Item(self.index[2])))

RECURSIVE State_next(_, _)

\* a ReadFields::next that reads the same field reference every time
ReadFields_next_same_field(self, at) ==
  IF self.count = 0 THEN State_next(self.state, at)
  ELSE LET from == offset2(header.field_indices, self.index)
           field == U32At(file, from)
       IN IF ~CanRead(from, 4) THEN Err(<<"Io">>, from)
          ELSE ReadLabel_next(ReadLabel(field,
                 ReadFields(self.index, self.count - 1, self.state)))

\* a ReadFields::next that reads the field reference where the reader is
ReadFields_next_no_seek(self, at) ==
  IF self.count = 0 THEN State_next(self.state, at)
  ELSE IF ~CanRead(at, 4) THEN Err(<<"Io">>, at)
       ELSE ReadLabel_next(ReadLabel(U32At(file, at),
              ReadFields(add(self.index, 1), self.count - 1, self.state)))

\* ReadFields::next
ReadFields_next(self, at) ==
  IF self.count = 0 THEN State_next(self.state, at)
  ELSE LET from == offset2(header.field_indices, self.index)
           field == U32At(file, from)
       IN IF ~CanRead(from, 4) THEN Err(<<"Io">>, from)
          ELSE ReadLabel_next(ReadLabel(field,
                 ReadFields(add(self.index, 1), self.count - 1, self.state)))

\* State::next with the reader at byte offset at
State_next(self, at) ==
  CASE self.kind = "Start"      -> ReadStruct_next(self)
    [] self.kind = "ReadLabel"  -> ReadLabel_next(self)
    [] self.kind = "ReadField"  -> ReadField_next(self, at)
    [] self.kind = "ReadFields" -> ReadFields_next(self, at)
    [] self.kind = "ReadItems"  -> ReadItems_next(self, at)
    [] self.kind \in {"EndRoot", "EndStruct", "EndItem"} -> EndStruct_next(self, at)
    [] self.kind = "Finish"     -> Err(<<"ParsingFinished">>, at)

----------------------------------------------------------------------------
(* The serde driver and the serializer objects it holds *)

\* a StructSerializer (struct_index, fields_index) or a ListSerializer
\* (list_index) with the driver's position in it: left is the number of
\* fields or elements still to come, index is the local `index` of the
\* serialize_field call that is waiting for its value to be serialized
StructFrame(struct_index, fields_index, left) ==
  [kind |-> "struct", struct_index |-> struct_index, fields_index |-> fields_index,
   list_index |-> 0, left |-> left, index |-> 0]
ListFrame(list_index, left) ==
  [kind |-> "list", struct_index |-> 0, fields_index |-> 0,
   list_index |-> list_index, left |-> left, index |-> 0]

Top == stack[Len(stack)]
Pop == SubSeq(stack, 1, Len(stack) - 1)

\* a call of the driver, as the pre-order description of the value tree
Event(ev, n, name, value) == [ev |-> ev, n |-> n, name |-> name, value |-> value]

RECURSIVE LeftOf(_, _)
\* fields (kind "struct") or elements (kind "list") the open serializers still expect
LeftOf(frames, kind) ==
  IF frames = <<>> THEN 0
  ELSE (IF Head(frames).kind = kind THEN Head(frames).left ELSE 0)
       + LeftOf(Tail(frames), kind)

\* a struct of len fields, a list of len elements can still be completed within the bounds
FieldsFit(len) == Len(ser.fields) + LeftOf(stack, "struct") + len <= MaxFields
StructsFit(len) == Len(ser.structs) + LeftOf(stack, "list") + len <= MaxStructs

\* to_writer: Serializer::default(), then value.serialize(&mut s) of a struct
\* with len fields calls Serializer::serialize_struct
SerializeRoot(len) ==
  /\ pc = "start"
  /\ FieldsFit(len)
  /\ LET added == add_struct(Serializer, len)
     IN /\ ser' = added.ser
        /\ stack' = <<StructFrame(added.index, added.list, len)>>
  /\ events' = <<Event("struct", len, <<>>, NoValue)>>
  /\ pc' = "ser"
  /\ UNCHANGED labelvars
  /\ UNCHANGED valuevars
  /\ UNCHANGED devars
  /\ UNCHANGED <<file, header, pos, state, result, trace>>

\* StructSerializer::serialize_field with a value that is not a struct or a list
SerializeFieldSimple(key, v) ==
  /\ pc = "ser" /\ stack # <<>> /\ Top.kind = "struct" /\ Top.left > 0
  /\ LET label == add_label(ser, key)
         index == Len(label.ser.fields)
         pushed == serialize_simple(label.ser, label.index, v)
     IN /\ label.ok
        /\ ser' = update_struct(pushed, Top.struct_index, Top.fields_index, index)
  /\ stack' = [stack EXCEPT ![Len(stack)].left = @ - 1]
  /\ events' = events \o <<Event("label", 0, key, NoValue), Event("value", 0, <<>>, v)>>
  /\ UNCHANGED labelvars
  /\ UNCHANGED valuevars
  /\ UNCHANGED devars
  /\ UNCHANGED <<pc, file, header, pos, state, result, trace>>

\* StructSerializer::serialize_field with a struct of len fields, up to the
\* return of FieldSerializer::serialize_struct
SerializeFieldStruct(key, len) ==
  /\ pc = "ser" /\ stack # <<>> /\ Top.kind = "struct" /\ Top.left > 0
  /\ len \in 0..MaxStructLen
  /\ Len(ser.structs) + LeftOf(stack, "list") < MaxStructs
  /\ FieldsFit(len)
  /\ LET label == add_label(ser, key)
         index == Len(label.ser.fields)
         added == field_add_struct(label.ser, label.index, len)
     IN /\ label.ok
        /\ ser' = added.ser
        /\ stack' = [stack EXCEPT ![Len(stack)].left = @ - 1,
                                  ![Len(stack)].index = index]
                    \o <<StructFrame(added.index, added.list, len)>>
  /\ events' = events \o <<Event("label", 0, key, NoValue), Event("struct", len, <<>>, NoValue)>>
  /\ UNCHANGED labelvars
  /\ UNCHANGED valuevars
  /\ UNCHANGED devars
  /\ UNCHANGED <<pc, file, header, pos, state, result, trace>>

\* StructSerializer::serialize_field with a sequence of len elements, up to
\* the return of FieldSerializer::serialize_seq
SerializeFieldSeq(key, len) ==
  /\ pc = "ser" /\ stack # <<>> /\ Top.kind = "struct" /\ Top.left > 0
  /\ len \in 0..MaxListLen
  /\ Len(ser.list_indices) < MaxLists
  /\ StructsFit(len)
  /\ LET label == add_label(ser, key)
         index == Len(label.ser.fields)
         added == add_list(label.ser, label.index)
     IN /\ label.ok
        /\ ser' = added.ser
        /\ stack' = [stack EXCEPT ![Len(stack)].left = @ - 1,
                                  ![Len(stack)].index = index]
                    \o <<ListFrame(added.list, len)>>
  /\ events' = events \o <<Event("label", 0, key, NoValue), Event("list", len, <<>>, NoValue)>>
  /\ UNCHANGED labelvars
  /\ UNCHANGED valuevars
  /\ UNCHANGED devars
  /\ UNCHANGED <<pc, file, header, pos, state, result, trace>>

\* ListSerializer::serialize_element with a struct of len fields, up to the
\* return of Serializer::serialize_struct
SerializeElement(len) ==
  /\ pc = "ser" /\ stack # <<>> /\ Top.kind = "list" /\ Top.left > 0
  /\ len \in 0..MaxStructLen
  /\ FieldsFit(len)
  /\ LET index == Len(ser.structs)
         listed == [ser EXCEPT !.list_indices[Top.list_index + 1] = Append(@, index)]
         added == add_struct(listed, len)
     IN /\ ser' = added.ser
        /\ stack' = [stack EXCEPT ![Len(stack)].left = @ - 1]
                    \o <<StructFrame(added.index, added.list, len)>>
  /\ events' = Append(events, Event("struct", len, <<>>, NoValue))
  /\ UNCHANGED labelvars
  /\ UNCHANGED valuevars
  /\ UNCHANGED devars
  /\ UNCHANGED <<pc, file, header, pos, state, result, trace>>

\* StructSerializer::end / ListSerializer::end, and the return into the
\* caller: a serialize_field that was waiting for this value updates its
\* struct record, an element or the root has nothing left to do
End ==
  /\ pc = "ser" /\ stack # <<>> /\ Top.left = 0
  /\ LET rest == Pop
         parent == rest[Len(rest)]
     IN /\ stack' = rest
        /\ ser' = IF rest # <<>> /\ parent.kind = "struct"
                  THEN update_struct(ser, parent.struct_index, parent.fields_index,
                                     parent.index)
                  ELSE ser
        /\ pc' = IF rest = <<>> THEN "serialized" ELSE "ser"
  /\ events' = Append(events, Event("end", 0, <<>>, NoValue))
  /\ UNCHANGED labelvars
  /\ UNCHANGED valuevars
  /\ UNCHANGED devars
  /\ UNCHANGED <<file, header, pos, state, result, trace>>

\* to_vec: the tail of to_writer, s.write(writer, signature, Version::V3_2)
Write ==
  /\ pc = "serialized"
  /\ file' = write(ser, Signature, V3_2)
  /\ pc' = "written"
  /\ UNCHANGED labelvars
  /\ UNCHANGED valuevars
  /\ UNCHANGED devars
  /\ UNCHANGED <<ser, stack, events, header, pos, state, result, trace>>

----------------------------------------------------------------------------
(* The reader of the file *)

\* Parser::new: Header::read consumes the header, the state is State::default()
ParserNew ==
  /\ pc \in {"written", "patched"}
  /\ Len(file) >= HeaderSize
  /\ header' = header_read(file)
  /\ pos' = HeaderSize
  /\ state' = Start
  /\ pc' = "parse"
  /\ UNCHANGED labelvars
  /\ UNCHANGED valuevars
  /\ UNCHANGED devars
  /\ UNCHANGED <<ser, stack, events, file, result, trace>>

\* the caller holds a Parser; after a call or a failure that upsets the
\* reading ("disturbed", "retry") it goes on for MaxTokens tokens at most
Calling ==
  /\ pc \in {"parse", "disturbed", "retry"}
  /\ pc = "parse" \/ Len(trace) < MaxTokens

\* the caller is gone after a panic and gives up after an error that is not
\* an I/O error
Stopped ==
  /\ result # <<>>
  /\ \/ result[1] = "panic"
     \/ result[1] = "Err" /\ result[2][1] \notin {"Io", "ParsingFinished"}

\* Parser::next_token
NextToken ==
  /\ Calling /\ ~Stopped
  /\ \E r \in {State_next(state, pos)} :
        /\ pos' = r.pos
        /\ state' = IF r.ok THEN r.state ELSE state
        /\ result' = IF r.ok THEN <<"Ok", r.token>> ELSE <<"Err", r.err>>
        /\ trace' = IF r.ok THEN Append(trace, [token |-> r.token, pos |-> r.pos])
                    ELSE trace
  /\ UNCHANGED labelvars
  /\ UNCHANGED valuevars
  /\ UNCHANGED devars
  /\ UNCHANGED <<pc, ser, stack, events, file, header>>

\* Iterator::next for Parser
IteratorNext ==
  /\ Calling /\ ~Stopped
  /\ IF state.kind = "Finish"
     THEN /\ result' = <<"None">>
          /\ UNCHANGED <<pos, state, trace>>
     ELSE LET r == State_next(state, pos)
          IN /\ pos' = r.pos
             /\ state' = IF r.ok THEN r.state ELSE state
             /\ result' = CASE r.ok -> <<"Some", r.token>>
                            [] r.err = <<"ParsingFinished">> -> <<"None">>
                            [] OTHER -> <<"panic", r.err>>
             /\ trace' = IF r.ok THEN Append(trace, [token |-> r.token, pos |-> r.pos])
                         ELSE trace
  /\ UNCHANGED labelvars
  /\ UNCHANGED valuevars
  /\ UNCHANGED devars
  /\ UNCHANGED <<pc, ser, stack, events, file, header>>

\* Parser::read_label of the label of a Label token returned before, called
\* between two calls of next_token
ReadLabelCall ==
  /\ Calling /\ ~Stopped
  /\ \E i \in 1..Len(trace) :
       /\ trace[i].token.kind = "Label"
       /\ LET r == read_label(trace[i].token.label, pos)
          IN /\ pos' = r.pos
             /\ result' = IF r.ok THEN <<"Label", as_str(r.label)>> ELSE <<"Err", <<"Io">>>>
  /\ UNCHANGED labelvars
  /\ UNCHANGED valuevars
  /\ UNCHANGED devars
  /\ UNCHANGED <<pc, ser, stack, events, file, header, state, trace>>

\* Parser::read_value of the value of the Value token just returned
ReadValueCall ==
  /\ Calling /\ ~Stopped
  /\ trace # <<>> /\ trace[Len(trace)].token.kind = "Value"
  /\ LET r == read_value(trace[Len(trace)].token.value, pos)
     IN /\ pos' = r.pos
        /\ result' = IF r.ok THEN <<"Value", r.value>> ELSE <<"Err", <<"Io">>>>
  /\ UNCHANGED labelvars
  /\ UNCHANGED valuevars
  /\ UNCHANGED devars
  /\ UNCHANGED <<pc, ser, stack, events, file, header, state, trace>>

\* Parser::read_value of the last value, called once after a later Label
\* token and before the next call of next_token
ReadValueAfterLabel ==
  /\ pc = "parse"
  /\ trace # <<>> /\ trace[Len(trace)].token.kind = "Label"
  /\ \E i \in 1..Len(trace) :
       /\ trace[i].token.kind = "Value"
       /\ \A j \in (i + 1)..Len(trace) : trace[j].token.kind # "Value"
       /\ LET r == read_value(trace[i].token.value, pos)
          IN /\ pos' = r.pos
             /\ result' = IF r.ok THEN <<"Value", r.value>> ELSE <<"Err", <<"Io">>>>
  /\ pc' = "disturbed"
  /\ UNCHANGED labelvars
  /\ UNCHANGED valuevars
  /\ UNCHANGED devars
  /\ UNCHANGED <<ser, stack, events, file, header, state, trace>>

\* a file in which the type of field f is a code that is no FieldType
UnknownTags == {16, 4096}

PatchFieldType(f, tag) ==
  /\ pc = "written"
  /\ f < header_read(file).fields.count
  /\ LET at == header_read(file).fields.offset + FieldSize * f
     IN file' = SubSeq(file, 1, at) \o LE(tag, 4) \o SubSeq(file, at + 5, Len(file))
  /\ pc' = "patched"
  /\ UNCHANGED labelvars
  /\ UNCHANGED valuevars
  /\ UNCHANGED devars
  /\ UNCHANGED <<ser, stack, events, header, pos, state, result, trace>>

\* where a seek or a read of ReadStruct::next that fails leaves the reader:
\* the operation that fails moves nothing
StructFail(index, at) ==
  LET from == offset(header.structs, StructSize, index)
  IN {at, from, from + 4, from + 8}

\* the same for ReadLabel::next
LabelFail(index, at) ==
  LET from == offset(header.fields, FieldSize, index)
  IN {at, from, from + 4}

RECURSIVE FailPositions(_, _)
\* the same for State::next
FailPositions(self, at) ==
  CASE self.kind = "Start"     -> StructFail(self.index, at)
    [] self.kind = "ReadLabel" -> LabelFail(self.index, at)
    [] self.kind = "ReadField" ->
         IF ~CanRead(at, 4) THEN {at}
         ELSE CASE self.tag = 14 -> {at} \cup StructFail(U32At(file, at), at + 4)
                [] self.tag = 15 ->
                     {at, at + 4, offset2(header.list_indices, <<U32At(file, at), 0>>)}
                [] OTHER -> {at}
    [] self.kind = "ReadFields" ->
         IF self.count = 0 THEN FailPositions(self.state, at)
         ELSE LET from == offset2(header.field_indices, self.index)
              IN IF ~CanRead(from, 4) THEN {at, from}
                 ELSE {at, from} \cup LabelFail(U32At(file, from), from + 4)
    [] self.kind = "ReadItems" ->
         IF self.count = 0 THEN {}
         ELSE LET from == offset2(header.list_indices, self.index)
              IN IF ~CanRead(from, 4) THEN {at, from}
                 ELSE {at, from} \cup StructFail(U32At(file, from), from + 4)
    [] OTHER -> {}

\* Parser::next_token over a source that fails once: State::next returns
\* Err(Io) at one of its seeks or reads, self.state is not assigned
NextTokenIoError ==
  /\ pc = "parse"
  /\ \E at \in FailPositions(state, pos) : pos' = at
  /\ result' = <<"Err", <<"Io">>>>
  /\ pc' = "retry"
  /\ UNCHANGED labelvars
  /\ UNCHANGED valuevars
  /\ UNCHANGED devars
  /\ UNCHANGED <<ser, stack, events, file, header, state, trace>>

----------------------------------------------------------------------------
(* to_writer over a whole Rust value, as serde's Serialize impls drive it *)

\* a Rust value: its kind in the serde data model, a number (scalars; 1 and 0
\* for true and false), bytes (char, str, bytes, ResRef) and its parts (the
\* wrapped value, the elements, the <<name, value>> or <<key, value>> pairs)
RustValue(t, n, b, items) == [t |-> t, n |-> n, b |-> b, items |-> items]
Scalar(t, n) == RustValue(t, n, <<>>, <<>>)
Bytes(t, b) == RustValue(t, 0, b, <<>>)
Wrapped(t, v) == RustValue(t, 0, <<>>, <<v>>)
Compound(t, items) == RustValue(t, 0, <<>>, items)

\* primitive! and complex!: the method of each number type and its field type
ScalarTag ==
  [u8 |-> "Byte", i8 |-> "Char", u16 |-> "Word", i16 |-> "Short", u32 |-> "Dword",
   i32 |-> "Int", u64 |-> "Dword64", i64 |-> "Int64", f32 |-> "Float", f64 |-> "Double"]
Scalars == DOMAIN ScalarTag

\* Result<()> of a serialize call with the serializer it leaves, or a panic
Done(res, s) == [res |-> res, ser |-> s]

RECURSIVE serialize(_, _)
RECURSIVE field_serialize(_, _, _)
RECURSIVE serialize_fields(_, _, _, _, _)
RECURSIVE serialize_elements(_, _, _, _)

RECURSIVE serialize_numbers_as_unit(_, _)
\* a Serializer that writes an empty struct for a number
serialize_numbers_as_unit(s, v) ==
  CASE v.t \in Scalars -> Done("Ok", add_struct(s, 0).ser)
    [] v.t \in {"bool", "char", "str", "bytes", "resref"} -> Done("Err", s)
    [] v.t \in {"seq", "tuple", "tuple_struct"} -> Done("Err", s)
    [] v.t \in {"none", "unit", "unit_struct"} -> Done("Ok", add_struct(s, 0).ser)
    [] v.t \in {"some", "newtype"} -> serialize_numbers_as_unit(s, v.items[1])
    [] v.t = "struct" ->
         LET added == add_struct(s, Len(v.items))
         IN serialize_fields(added.ser, added.index, added.list, v.items, 1)
    [] v.t = "map" -> Done("panic", s)

\* value.serialize(&mut Serializer): the value at top level or as a list element
serialize(s, v) ==
  CASE v.t \in Scalars \cup {"bool", "char", "str", "bytes", "resref"} -> Done("Err", s)
    [] v.t \in {"seq", "tuple", "tuple_struct"} -> Done("Err", s)
    [] v.t \in {"none", "unit", "unit_struct"} -> Done("Ok", add_struct(s, 0).ser)
    [] v.t \in {"some", "newtype"} -> serialize(s, v.items[1])
    [] v.t = "struct" ->
         LET added == add_struct(s, Len(v.items))
         IN serialize_fields(added.ser, added.index, added.list, v.items, 1)
    [] v.t = "map" -> Done("panic", s)

RECURSIVE field_serialize_none_omitted(_, _, _)
\* a FieldSerializer that writes no field for None
field_serialize_none_omitted(s, label, v) ==
  CASE v.t \in Scalars ->
         Done("Ok", serialize_simple(s, label, SimpleValue(ScalarTag[v.t], v.n, <<>>)))
    [] v.t = "bool" ->
         Done("Ok", serialize_simple(s, label,
                      SimpleValue("Byte", IF v.n # 0 THEN 1 ELSE 0, <<>>)))
    [] v.t \in {"char", "str"} ->
         Done("Ok", serialize_simple(s, label, SimpleValue("String", 0, v.b)))
    [] v.t \in {"bytes", "resref"} ->
         Done("Ok", serialize_simple(s, label, SimpleValue("Void", 0, v.b)))
    [] v.t = "none" -> Done("Ok", s)
    [] v.t \in {"unit", "unit_struct"} ->
         Done("Ok", field_add_struct(s, label, 0).ser)
    [] v.t \in {"some", "newtype"} -> field_serialize_none_omitted(s, label, v.items[1])
    [] v.t \in {"seq", "tuple", "tuple_struct"} ->
         LET added == add_list(s, label)
         IN serialize_elements(added.ser, added.list, v.items, 1)
    [] v.t = "struct" ->
         LET added == field_add_struct(s, label, Len(v.items))
         IN serialize_fields(added.ser, added.index, added.list, v.items, 1)
    [] v.t = "map" -> Done("panic", s)

\* value.serialize(FieldSerializer { ser, label })
field_serialize(s, label, v) ==
  CASE v.t \in Scalars ->
         Done("Ok", serialize_simple(s, label, SimpleValue(ScalarTag[v.t], v.n, <<>>)))
    [] v.t = "bool" ->
         Done("Ok", serialize_simple(s, label,
                      SimpleValue("Byte", IF v.n # 0 THEN 1 ELSE 0, <<>>)))
    [] v.t \in {"char", "str"} ->
         Done("Ok", serialize_simple(s, label, SimpleValue("String", 0, v.b)))
    [] v.t \in {"bytes", "resref"} ->
         Done("Ok", serialize_simple(s, label, SimpleValue("Void", 0, v.b)))
    [] v.t \in {"none", "unit", "unit_struct"} ->
         Done("Ok", field_add_struct(s, label, 0).ser)
    [] v.t \in {"some", "newtype"} -> field_serialize(s, label, v.items[1])
    [] v.t \in {"seq", "tuple", "tuple_struct"} ->
         LET added == add_list(s, label)
         IN serialize_elements(added.ser, added.list, v.items, 1)
    [] v.t = "struct" ->
         LET added == field_add_struct(s, label, Len(v.items))
         IN serialize_fields(added.ser, added.index, added.list, v.items, 1)
    [] v.t = "map" -> Done("panic", s)

\* the derived Serialize of a struct after serialize_struct: serialize_field
\* for the fields from the i-th on, then end
serialize_fields(s, struct_index, fields_index, items, i) ==
  IF i > Len(items) THEN Done("Ok", s)
  ELSE LET label == add_label(s, items[i][1])
           index == Len(label.ser.fields)
           field == field_serialize(label.ser, label.index, items[i][2])
       IN CASE ~label.ok -> Done("Err", s)
            [] field.res # "Ok" -> field
            [] OTHER ->
                 serialize_fields(update_struct(field.ser, struct_index, fields_index, index),
                                  struct_index, fields_index, items, i + 1)

RECURSIVE serialize_elements_index_after(_, _, _, _)
\* a ListSerializer that takes the index of an element after serializing it
serialize_elements_index_after(s, list_index, items, i) ==
  IF i > Len(items) THEN Done("Ok", s)
  ELSE LET element == serialize(s, items[i])
           index == Len(element.ser.structs)
           listed == [element.ser EXCEPT !.list_indices[list_index + 1] = Append(@, index)]
       IN IF element.res # "Ok" THEN element
          ELSE serialize_elements_index_after(listed, list_index, items, i + 1)

\* Serialize of a sequence or tuple after serialize_seq / serialize_tuple:
\* serialize_element for the elements from the i-th on, then end
serialize_elements(s, list_index, items, i) ==
  IF i > Len(items) THEN Done("Ok", s)
  ELSE LET index == Len(s.structs)
           listed == [s EXCEPT !.list_indices[list_index + 1] = Append(@, index)]
           element == serialize(listed, items[i])
       IN IF element.res # "Ok" THEN element
          ELSE serialize_elements(element.ser, list_index, items, i + 1)

\* to_writer into an empty sink: what it returns, the serializer, the sink
to_writer(v) ==
  LET done == serialize(Serializer, v)
  IN [res |-> done.res, ser |-> done.ser,
      sink |-> IF done.res = "Ok" THEN write(done.ser, Signature, V3_2) ELSE <<>>]

\* the values the caller chooses from
Key1 == <<97>>
Key2 == <<98, 99>>
Unit == Compound("unit", <<>>)
None == Compound("none", <<>>)
Leaves ==
  { Scalar("u8", 7), Scalar("i8", -8), Scalar("u16", 300), Scalar("i16", -2),
    Scalar("u32", 1), Scalar("i32", -1), Scalar("u64", 5), Scalar("i64", -3),
    Scalar("f32", 1065353216), Scalar("f64", 9), Scalar("bool", 0), Scalar("bool", 1),
    Bytes("char", <<97>>), Bytes("str", <<104, 105, 33>>), Bytes("str", <<>>),
    Bytes("bytes", <<1, 2>>), Bytes("resref", <<97, 98>>),
    Unit, Compound("unit_struct", <<>>), None }
Few ==
  { Unit, None, Scalar("u32", 1), Scalar("i64", -3), Scalar("u64", 5),
    Bytes("str", <<104, 105, 33>>), Bytes("bytes", <<1, 2>>), Scalar("bool", 1) }
Maps ==
  { Compound("map", <<>>),
    Compound("map", <<<<Bytes("str", Key1), Scalar("u32", 1)>>>>),
    Compound("map", <<<<Bytes("str", Key1), Scalar("u32", 1)>>,
                      <<Bytes("str", Key2), Scalar("u32", 2)>>>>),
    Compound("map", <<<<Scalar("u32", 1), Scalar("u32", 1)>>,
                      <<Scalar("u32", 2), Scalar("u32", 2)>>>>) }
Elements ==
  { Unit, None, Compound("struct", <<>>),
    Compound("struct", <<<<Key1, Scalar("u8", 7)>>>>),
    Wrapped("some", Compound("struct", <<<<Key1, Scalar("i64", -3)>>>>)),
    Scalar("u32", 1), Compound("seq", <<>>), Compound("map", <<>>) }
Seqs ==
  { Compound(t, items) :
      t \in {"seq", "tuple", "tuple_struct"},
      items \in UNION {[1..n -> Elements] : n \in 0..MaxSeqLen} }
Inner ==
  {Compound("struct", <<>>)}
    \cup {Compound("struct", <<<<Key1, x>>>>) : x \in Leaves}
    \cup {Compound("struct", <<<<Key2, x>>, <<Key1, y>>>>) : x \in Few, y \in Few}
LongResRefs == {Bytes("resref", [i \in 1..n |-> 97]) : n \in {255, 256}}
FieldValues ==
  Leaves \cup Seqs \cup Maps \cup Inner \cup LongResRefs
    \cup {Wrapped(w, x) : w \in {"some", "newtype"}, x \in Leaves \cup Inner}
Structs ==
  {Compound("struct", <<>>)}
    \cup {Compound("struct", <<<<Key1, x>>>>) : x \in FieldValues}
    \cup {Compound("struct", <<<<Key2, x>>, <<Key1, y>>>>) : x \in Few, y \in Few \cup Maps}
Values ==
  Structs \cup Leaves \cup Seqs \cup Maps
    \cup {Wrapped(w, x) : w \in {"some", "newtype"},
                           x \in Leaves \cup Structs \cup Maps \cup Seqs}

\* the caller has a value
ChooseValue(v) ==
  /\ pc = "start"
  /\ input' = v
  /\ pc' = "value"
  /\ UNCHANGED filevars
  /\ UNCHANGED labelvars
  /\ UNCHANGED <<outcome>>
  /\ UNCHANGED devars

\* to_writer (to_vec) of the value
ToWriter ==
  /\ pc = "value"
  /\ LET done == to_writer(input)
     IN /\ outcome' = done.res
        /\ ser' = done.ser
        /\ file' = done.sink
        /\ pc' = IF done.res = "Ok" THEN "written" ELSE "failed"
  /\ UNCHANGED labelvars
  /\ UNCHANGED <<input, stack, events, header, pos, state, result, trace>>
  /\ UNCHANGED devars

----------------------------------------------------------------------------
(* de/mod.rs: the Deserializer, a Parser and one token looked at ahead *)

\* a Deserializer: the token in `peeked` (<<>> for None) and its parser (the
\* state, the position of the reader and the tokens it has produced), with the
\* tokens next_token has returned to its callers
Deserializer(pk, st, at, produced, returned) ==
  [peeked |-> pk, state |-> st, pos |-> at, trace |-> produced, taken |-> returned]

\* the Result of a method of the Deserializer and the Deserializer after it
DeOk(value, de) == [ok |-> TRUE, value |-> value, err |-> <<>>, de |-> de]
DeErr(err, de) == [ok |-> FALSE, value |-> NoToken, err |-> err, de |-> de]

\* Parser::next_token of the parser in the Deserializer
parser_next_token(de) ==
  CHOOSE res \in
    { IF r.ok
      THEN DeOk(r.token, [de EXCEPT !.state = r.state, !.pos = r.pos,
                                    !.trace = Append(@, [token |-> r.token, pos |-> r.pos])])
      ELSE DeErr(r.err, [de EXCEPT !.pos = r.pos]) :
        r \in {State_next(de.state, de.pos)} } : TRUE

\* Deserializer::next_token: peeked.take(), or the parser's next token
de_next_token(de) ==
  IF de.peeked # <<>>
  THEN DeOk(de.peeked[1], [de EXCEPT !.peeked = <<>>, !.taken = Append(@, de.peeked[1])])
  ELSE CHOOSE res \in
         { IF r.ok THEN DeOk(r.value, [r.de EXCEPT !.taken = Append(@, r.value)]) ELSE r :
             r \in {parser_next_token(de)} } : TRUE

\* a peek_token that asks the parser every time
de_peek_token_always_reads(de) ==
  CHOOSE res \in
    { IF r.ok THEN DeOk(r.value, [r.de EXCEPT !.peeked = <<r.value>>]) ELSE r :
        r \in {parser_next_token(de)} } : TRUE

\* Deserializer::peek_token: fills `peeked` through next_token when it is
\* None; the token it keeps has not been returned to a caller of next_token
de_peek_token(de) ==
  IF de.peeked = <<>>
  THEN CHOOSE res \in
         { IF r.ok
           THEN DeOk(r.value, [r.de EXCEPT !.peeked = <<r.value>>, !.taken = de.taken])
           ELSE r :
             r \in {de_next_token(de)} } : TRUE
  ELSE DeOk(de.peeked[1], de)

\* a skip that stops in front of the close token of what it passes over
State_skip_to_close(self, token) ==
  CASE token.kind \in BeginKinds ->
         IF self.kind \in {"EndRoot", "EndStruct", "EndItem"} THEN self ELSE self.state
    [] token.kind = "ListBegin" -> [self EXCEPT !.count = 0]
    [] OTHER -> self

\* State::skip, called by Parser::skip_next and absent from parser/states.rs:
\* the state in which next_token returns the next structural element after the
\* one the token has opened. After a RootBegin, StructBegin or ItemBegin the
\* state is the End state of the struct (no fields) or a ReadLabel or
\* ReadFields state that returns to it, and the End state holds the state to
\* go on with; after a ListBegin the state is a ReadItems state that holds it.
\* A token that opens nothing has no inner structure to pass over.
State_skip(self, token) ==
  CASE token.kind \in BeginKinds ->
         IF self.kind \in {"EndRoot", "EndStruct", "EndItem"} THEN self.state
         ELSE self.state.state
    [] token.kind = "ListBegin" -> self.state
    [] OTHER -> self

\* Parser::skip_next
skip_next(de, token) == [de EXCEPT !.state = State_skip(@, token)]

\* a deserialize_unit that takes the Begin token and leaves the struct unread
deserialize_unit_no_skip(de) ==
  CHOOSE res \in
    { IF ~r.ok THEN r
      ELSE IF r.value.kind \in BeginKinds THEN DeOk("unit", r.de)
      ELSE DeErr(<<"Unexpected", r.value>>, r.de) :
        r \in {de_next_token(de)} } : TRUE

\* deserialize_unit, and deserialize_unit_struct which calls it
deserialize_unit(de) ==
  CHOOSE res \in
    { IF ~r.ok THEN r
      ELSE IF r.value.kind \in BeginKinds THEN DeOk("unit", skip_next(r.de, r.value))
      ELSE DeErr(<<"Unexpected", r.value>>, r.de) :
        r \in {de_next_token(de)} } : TRUE

\* deserialize_ignored_any
deserialize_ignored_any(de) ==
  CHOOSE res \in
    { IF ~r.ok THEN r ELSE DeOk("none", skip_next(r.de, r.value)) :
        r \in {de_next_token(de)} } : TRUE

\* Field::deserialize_identifier: the Label token and the label it names
deserialize_identifier(de) ==
  CHOOSE res \in
    { IF ~r.ok THEN r
      ELSE IF r.value.kind # "Label" THEN DeErr(<<"Unexpected", r.value>>, r.de)
      ELSE CHOOSE named \in
             { IF label.ok
               THEN DeOk(<<"Some", as_str(label.label)>>, [r.de EXCEPT !.pos = label.pos])
               ELSE DeErr(<<"Io">>, [r.de EXCEPT !.pos = label.pos]) :
                 label \in {read_label(r.value.label, r.de.pos)} } : TRUE :
        r \in {de_next_token(de)} } : TRUE

\* MapAccess::next_key_seed: None at the End token of the struct, which stays
\* in `peeked`, and the name of the field at a Label
next_key_seed(de) ==
  CHOOSE res \in
    { IF ~r.ok THEN r
      ELSE CASE r.value.kind \in EndKinds -> DeOk(<<"None">>, r.de)
             [] r.value.kind = "Label" -> deserialize_identifier(r.de)
             [] OTHER -> DeErr(<<"Unexpected", r.value>>, r.de) :
        r \in {de_peek_token(de)} } : TRUE

RECURSIVE visit_map(_, _)
\* visit_map of the Visitor derived for a struct without fields: it asks for
\* keys until there is none and has the value of every key, a field it does
\* not know, deserialized as IgnoredAny (next_value_seed); a struct has n
\* fields at most
visit_map(de, n) ==
  CHOOSE done \in
    { IF ~key.ok \/ n = 0 THEN key
      ELSE IF key.value = <<"None">> THEN DeOk("struct", key.de)
      ELSE CHOOSE rest \in
             { IF ~ignored.ok THEN ignored ELSE visit_map(ignored.de, n - 1) :
                 ignored \in {deserialize_ignored_any(key.de)} } : TRUE :
        key \in {next_key_seed(de)} } : TRUE

\* the emitter of the struct a Begin token has opened
Emitter(token) ==
  CASE token.kind = "RootBegin"   -> Root
    [] token.kind = "StructBegin" -> Struct
    [] token.kind = "ItemBegin"   -> Item(token.index)

\* deserialize_map, and deserialize_struct which calls it: the Begin token,
\* the visitor, and the End token that belongs to the Begin token (complex!)
deserialize_map(de) ==
  CHOOSE res \in
    { IF ~r.ok THEN r
      ELSE IF r.value.kind \notin BeginKinds THEN DeErr(<<"Unexpected", r.value>>, r.de)
      ELSE CHOOSE done \in
             { IF ~value.ok THEN value
               ELSE CHOOSE closed \in
                      { IF ~token.ok THEN token
                        ELSE IF token.value = end(Emitter(r.value))
                             THEN DeOk("struct", token.de)
                             ELSE DeErr(<<"Unexpected", token.value>>, token.de) :
                          token \in {de_next_token(value.de)} } : TRUE :
                 value \in {visit_map(r.de, MaxFields + 1)} } : TRUE :
        r \in {de_next_token(de)} } : TRUE

\* the Deserializer the caller holds
Self == Deserializer(peeked, state, pos, trace, taken)

\* the Deserializer after a call
Becomes(de) ==
  /\ peeked' = de.peeked
  /\ state' = de.state
  /\ pos' = de.pos
  /\ trace' = de.trace
  /\ taken' = de.taken

\* Deserializer::new
DeserializerNew ==
  /\ pc = "written"
  /\ Len(file) >= HeaderSize
  /\ header' = header_read(file)
  /\ Becomes(Deserializer(<<>>, Start, HeaderSize, <<>>, <<>>))
  /\ pc' = "parse"
  /\ UNCHANGED labelvars
  /\ UNCHANGED valuevars
  /\ UNCHANGED <<ser, stack, events, file, result>>

\* a call of Deserializer::next_token
DeNextToken ==
  /\ Calling /\ ~Stopped
  /\ \E r \in {de_next_token(Self)} :
       /\ Becomes(r.de)
       /\ result' = IF r.ok THEN <<"Ok", r.value>> ELSE <<"Err", r.err>>
  /\ UNCHANGED labelvars
  /\ UNCHANGED valuevars
  /\ UNCHANGED <<pc, ser, stack, events, file, header>>

\* a call of Deserializer::peek_token
DePeekToken ==
  /\ Calling /\ ~Stopped
  /\ \E r \in {de_peek_token(Self)} :
       /\ Becomes(r.de)
       /\ result' = IF r.ok THEN <<"Peek", r.value>> ELSE <<"Err", r.err>>
  /\ UNCHANGED labelvars
  /\ UNCHANGED valuevars
  /\ UNCHANGED <<pc, ser, stack, events, file, header>>

\* Parser::skip_next with the token that opens a struct or a list and that
\* the call of next_token before it has returned
SkipNext ==
  /\ Calling /\ ~Stopped
  /\ result # <<>> /\ result[1] = "Ok"
  /\ result[2].kind \in BeginKinds \cup {"ListBegin"}
  /\ Becomes(skip_next(Self, result[2]))
  /\ result' = <<"Skipped", result[2]>>
  /\ UNCHANGED labelvars
  /\ UNCHANGED valuevars
  /\ UNCHANGED <<pc, ser, stack, events, file, header>>

\* deserialize_unit or deserialize_unit_struct of what comes next
DeserializeUnit ==
  /\ Calling /\ ~Stopped
  /\ \E r \in {deserialize_unit(Self)} :
       /\ Becomes(r.de)
       /\ result' = IF r.ok THEN <<"Unit">> ELSE <<"Err", r.err>>
  /\ UNCHANGED labelvars
  /\ UNCHANGED valuevars
  /\ UNCHANGED <<pc, ser, stack, events, file, header>>

\* deserialize_struct of what comes next into a struct without fields
DeserializeStruct ==
  /\ Calling /\ ~Stopped
  /\ \E r \in {deserialize_map(Self)} :
       /\ Becomes(r.de)
       /\ result' = IF r.ok THEN <<"Struct">> ELSE <<"Err", r.err>>
  /\ UNCHANGED labelvars
  /\ UNCHANGED valuevars
  /\ UNCHANGED <<pc, ser, stack, events, file, header>>

----------------------------------------------------------------------------
Init ==
  /\ pc = "start"
  /\ ser = Serializer
  /\ stack = <<>>
  /\ events = <<>>
  /\ file = <<>>
  /\ header = <<>>
  /\ pos = 0
  /\ state = Finish
  /\ result = <<>>
  /\ trace = <<>>
  /\ text = <<>>
  /\ made = <<>>
  /\ shown = <<>>
  /\ input = <<>>
  /\ outcome = <<>>
  /\ peeked = <<>>
  /\ taken = <<>>

Next ==
  \/ \E len \in 0..MaxStructLen : SerializeRoot(len)
  \/ \E f \in SimpleFields : SerializeFieldSimple(f[1], f[2])
  \/ \E key \in StructKeys, len \in 0..MaxStructLen : SerializeFieldStruct(key, len)
  \/ \E key \in ListKeys, len \in 0..MaxListLen : SerializeFieldSeq(key, len)
  \/ \E len \in 0..MaxStructLen : SerializeElement(len)
  \/ End
  \/ Write
  \/ ParserNew
  \/ NextToken
  \/ IteratorNext

Spec == Init /\ [][Next]_vars

\* a caller of next_token that reads labels and values between the tokens
NextReads ==
  \/ \E len \in 0..MaxStructLen : SerializeRoot(len)
  \/ \E f \in SimpleFields : SerializeFieldSimple(f[1], f[2])
  \/ \E key \in StructKeys, len \in 0..MaxStructLen : SerializeFieldStruct(key, len)
  \/ \E key \in ListKeys, len \in 0..MaxListLen : SerializeFieldSeq(key, len)
  \/ \E len \in 0..MaxStructLen : SerializeElement(len)
  \/ End
  \/ Write
  \/ ParserNew
  \/ NextToken
  \/ ReadLabelCall
  \/ ReadValueCall

SpecReads == Init /\ [][NextReads]_vars

\* a caller of next_token that calls read_value once after a Label token
NextAfterLabel ==
  \/ \E len \in 0..MaxStructLen : SerializeRoot(len)
  \/ \E f \in SimpleFields : SerializeFieldSimple(f[1], f[2])
  \/ \E key \in StructKeys, len \in 0..MaxStructLen : SerializeFieldStruct(key, len)
  \/ \E key \in ListKeys, len \in 0..MaxListLen : SerializeFieldSeq(key, len)
  \/ \E len \in 0..MaxStructLen : SerializeElement(len)
  \/ End
  \/ Write
  \/ ParserNew
  \/ NextToken
  \/ ReadValueAfterLabel

SpecAfterLabel == Init /\ [][NextAfterLabel]_vars

\* a caller of next_token over files with a field of unknown type
NextUnknown ==
  \/ \E len \in 0..MaxStructLen : SerializeRoot(len)
  \/ \E f \in SimpleFields : SerializeFieldSimple(f[1], f[2])
  \/ \E key \in StructKeys, len \in 0..MaxStructLen : SerializeFieldStruct(key, len)
  \/ \E key \in ListKeys, len \in 0..MaxListLen : SerializeFieldSeq(key, len)
  \/ \E len \in 0..MaxStructLen : SerializeElement(len)
  \/ End
  \/ Write
  \/ ParserNew
  \/ \E f \in 0..(MaxFields - 1), tag \in UnknownTags : PatchFieldType(f, tag)
  \/ NextToken

SpecUnknown == Init /\ [][NextUnknown]_vars

\* a caller of Iterator::next over files with a field of unknown type
NextIterator ==
  \/ \E len \in 0..MaxStructLen : SerializeRoot(len)
  \/ \E f \in SimpleFields : SerializeFieldSimple(f[1], f[2])
  \/ \E key \in StructKeys, len \in 0..MaxStructLen : SerializeFieldStruct(key, len)
  \/ \E key \in ListKeys, len \in 0..MaxListLen : SerializeFieldSeq(key, len)
  \/ \E len \in 0..MaxStructLen : SerializeElement(len)
  \/ End
  \/ Write
  \/ ParserNew
  \/ \E f \in 0..(MaxFields - 1), tag \in UnknownTags : PatchFieldType(f, tag)
  \/ IteratorNext

SpecIterator == Init /\ [][NextIterator]_vars

\* a caller of next_token over a source that fails once
NextIo ==
  \/ \E len \in 0..MaxStructLen : SerializeRoot(len)
  \/ \E f \in SimpleFields : SerializeFieldSimple(f[1], f[2])
  \/ \E key \in StructKeys, len \in 0..MaxStructLen : SerializeFieldStruct(key, len)
  \/ \E key \in ListKeys, len \in 0..MaxListLen : SerializeFieldSeq(key, len)
  \/ \E len \in 0..MaxStructLen : SerializeElement(len)
  \/ End
  \/ Write
  \/ ParserNew
  \/ NextToken
  \/ NextTokenIoError

SpecIo == Init /\ [][NextIo]_vars

\* to_writer over whole values, and the tokens of what it has written
NextValue ==
  \/ \E v \in Values : ChooseValue(v)
  \/ ToWriter
  \/ ParserNew
  \/ NextToken

SpecValue == Init /\ [][NextValue]_vars

\* a caller of the Deserializer over the bytes to_writer has written
NextDe ==
  \/ \E v \in Values : ChooseValue(v)
  \/ ToWriter
  \/ DeserializerNew
  \/ DeNextToken
  \/ DePeekToken
  \/ SkipNext
  \/ DeserializeUnit
  \/ DeserializeStruct

SpecDe == Init /\ [][NextDe]_vars

\* the longest nested struct and list element that the persistent caller
\* below writes, and its simple fields
MaxLiveLen == 1
LiveFields == {f \in SimpleFields : f[1] \in StructKeys}

\* a caller that writes a value and then calls next_token again and again:
\* `while let Ok(token) = parser.next_token()`, so a call that can be made is
\* made in the end
NextLive ==
  \/ \E len \in 0..MaxStructLen : SerializeRoot(len)
  \/ \E f \in LiveFields : SerializeFieldSimple(f[1], f[2])
  \/ \E key \in StructKeys, len \in 0..MaxLiveLen : SerializeFieldStruct(key, len)
  \/ \E key \in ListKeys, len \in 0..MaxListLen : SerializeFieldSeq(key, len)
  \/ \E len \in 0..MaxLiveLen : SerializeElement(len)
  \/ End
  \/ Write
  \/ ParserNew
  \/ NextToken

SpecLive == Init /\ [][NextLive]_vars /\ WF_vars(NextToken)

----------------------------------------------------------------------------
(* label.rs on its own: a name is made a Label and the Label is read back *)

MaxNameLen == 17

\* names of up to MaxNameLen bytes: letters, one of them another letter or a
\* NUL
Names ==
  {[i \in 1..n |-> IF i = k THEN c ELSE 97] : n \in 0..MaxNameLen, k \in 0..MaxNameLen,
                                               c \in {0, 98}}

\* "name".parse::<Label>(): Label::from_str, Label::from_bytes
LabelFromBytes ==
  /\ pc = "name"
  /\ made' = from_bytes(text)
  /\ pc' = "label"
  /\ UNCHANGED filevars
  /\ UNCHANGED valuevars
  /\ UNCHANGED devars
  /\ UNCHANGED <<text, shown>>

\* Label::as_str of the label made
LabelAsStr ==
  /\ pc = "label"
  /\ made.ok
  /\ shown' = as_str(made.label)
  /\ pc' = "str"
  /\ UNCHANGED filevars
  /\ UNCHANGED valuevars
  /\ UNCHANGED devars
  /\ UNCHANGED <<text, made>>

InitLabel ==
  /\ pc = "name"
  /\ text \in Names
  /\ made = <<>>
  /\ shown = <<>>
  /\ ser = Serializer
  /\ stack = <<>>
  /\ events = <<>>
  /\ file = <<>>
  /\ header = <<>>
  /\ pos = 0
  /\ state = Finish
  /\ result = <<>>
  /\ trace = <<>>
  /\ input = <<>>
  /\ outcome = <<>>
  /\ peeked = <<>>
  /\ taken = <<>>

NextLabel == LabelFromBytes \/ LabelAsStr

SpecLabel == InitLabel /\ [][NextLabel]_vars

----------------------------------------------------------------------------
(* Nesting in a sequence of opening (1), closing (-1) and other (0) entries *)

RECURSIVE DepthSeq(_, _)
\* the depth after each entry, starting from depth d
DepthSeq(shape, d) ==
  IF shape = <<>> THEN <<>>
  ELSE <<d + Head(shape)>> \o DepthSeq(Tail(shape), d + Head(shape))

\* the entry that closes the one opened at i, 0 when it is still open
Match(shape, i) ==
  LET depth == DepthSeq(shape, 0)
      closes == {j \in (i + 1)..Len(shape) : depth[j] = depth[i] - 1}
  IN IF closes = {} THEN 0 ELSE CHOOSE j \in closes : \A k \in closes : j <= k

\* the entries directly inside the one opened at i
Inside(shape, i) ==
  LET depth == DepthSeq(shape, 0)
      last == IF Match(shape, i) = 0 THEN Len(shape) ELSE Match(shape, i) - 1
  IN {k \in (i + 1)..last : depth[k - 1] = depth[i]}

\* the elements of a set of numbers in increasing order
RECURSIVE Sorted(_)
Sorted(set) ==
  IF set = {} THEN <<>>
  ELSE LET least == CHOOSE x \in set : \A y \in set : x <= y
       IN <<least>> \o Sorted(set \ {least})

Tokens == [i \in 1..Len(trace) |-> trace[i].token]

TokenShape ==
  [i \in 1..Len(trace) |->
     CASE trace[i].token.kind \in BeginKinds \cup {"ListBegin"} -> 1
       [] trace[i].token.kind \in EndKinds \cup {"ListEnd"} -> -1
       [] OTHER -> 0]

EventShape ==
  [i \in 1..Len(events) |->
     CASE events[i].ev \in {"struct", "list"} -> 1
       [] events[i].ev = "end" -> -1
       [] OTHER -> 0]

Parsing == pc = "parse"
Finished == pc = "parse" /\ state.kind = "Finish"

----------------------------------------------------------------------------
(* C1 *)

\* what a token says about the value tree, with the label and the value read
\* from the file
Describe(token) ==
  CASE token.kind \in BeginKinds -> Event("struct", token.count, <<>>, NoValue)
    [] token.kind = "ListBegin"  -> Event("list", token.count, <<>>, NoValue)
    [] token.kind = "Label" ->
         Event("label", 0, as_str(read_label(token.label, 0).label), NoValue)
    [] token.kind = "Value" -> Event("value", 0, <<>>, read_value(token.value, 0).value)
    [] OTHER -> Event("end", 0, <<>>, NoValue)

\* C1: the tokens of the written file describe the serialized value tree: at
\* every point of the reading the tokens returned so far, with labels and
\* values resolved, are the first calls the driver made (same field names and
\* values in the same order, same struct and list lengths), and once the
\* parser has finished they are all of them.
RoundTrip ==
  Parsing =>
    /\ Len(trace) <= Len(events)
    /\ \A i \in 1..Len(trace) : Describe(trace[i].token) = events[i]
    /\ state.kind = "Finish" => Len(trace) = Len(events)

\* a tree with a list, a multi-field struct and an indirect value has been
\* written and read back to the end
RoundTripWitness ==
  /\ Finished
  /\ Len(ser.list_indices) = 2
  /\ Len(ser.field_indices) >= 1
  /\ Len(ser.field_data) > 0
  /\ Len(ser.labels) = 2

----------------------------------------------------------------------------
(* C2 *)

\* the recognizer of
\*   Root := RootBegin Field* RootEnd      Struct := StructBegin Field* StructEnd
\*   Item := ItemBegin Field* ItemEnd      Field := Label (Value | Struct | List)
\*   List := ListBegin Item* ListEnd
\* open holds the compounds that are open, innermost last; mode says what may
\* come next
Expect(open, mode) == [open |-> open, mode |-> mode]

Closed(open) ==
  LET rest == SubSeq(open, 1, Len(open) - 1)
  IN CASE rest = <<>>                -> Expect(rest, "done")
       [] rest[Len(rest)] = "List"   -> Expect(rest, "items")
       [] OTHER                      -> Expect(rest, "fields")

Step(config, token) ==
  LET open == config.open
      top == IF open = <<>> THEN "" ELSE open[Len(open)]
  IN CASE config.mode = "start" /\ token.kind = "RootBegin" ->
            Expect(<<"Root">>, "fields")
       [] config.mode = "fields" /\ token.kind = "Label" -> Expect(open, "value")
       [] config.mode = "fields" /\ token.kind = "RootEnd" /\ top = "Root" -> Closed(open)
       [] config.mode = "fields" /\ token.kind = "StructEnd" /\ top = "Struct" ->
            Closed(open)
       [] config.mode = "fields" /\ token.kind = "ItemEnd" /\ top = "Item" -> Closed(open)
       [] config.mode = "value" /\ token.kind = "Value" -> Expect(open, "fields")
       [] config.mode = "value" /\ token.kind = "StructBegin" ->
            Expect(Append(open, "Struct"), "fields")
       [] config.mode = "value" /\ token.kind = "ListBegin" ->
            Expect(Append(open, "List"), "items")
       [] config.mode = "items" /\ token.kind = "ItemBegin" ->
            Expect(Append(open, "Item"), "fields")
       [] config.mode = "items" /\ token.kind = "ListEnd" /\ top = "List" -> Closed(open)
       [] OTHER -> Expect(open, "fail")

RECURSIVE Recognize(_, _)
Recognize(tokens, config) ==
  IF tokens = <<>> THEN config
  ELSE Recognize(Tail(tokens), Step(config, Head(tokens)))

\* C2: the tokens of a well-formed file follow the grammar: whatever has been
\* returned so far is the beginning of a Root (every End closes the innermost
\* open Begin and is of its kind, every field starts with its Label, nothing
\* follows RootEnd), and when the parser has finished it is a whole Root
\* whose last token is RootEnd.
Grammar ==
  Parsing =>
    LET config == Recognize(Tokens, Expect(<<>>, "start"))
    IN /\ config.mode # "fail"
       /\ state.kind = "Finish" =>
            config.mode = "done" /\ Tokens[Len(Tokens)].kind = "RootEnd"

\* a file with a struct field and a list of two items has been read to the end
GrammarWitness ==
  /\ Finished
  /\ \E i \in 1..Len(trace) : Tokens[i].kind = "StructBegin"
  /\ \E i \in 1..Len(trace) : Tokens[i].kind = "ListBegin" /\ Tokens[i].count = 2
  /\ \E i \in 1..Len(trace) : Tokens[i].kind = "Value"

----------------------------------------------------------------------------
(* C3 *)

\* the struct record and the references the file stores
StoredStruct(index) ==
  LET at == header.structs.offset + StructSize * index
  IN [tag |-> U32At(file, at), offset |-> U32At(file, at + 4),
      fields |-> U32At(file, at + 8)]

\* the j-th (from 0) field reference of a struct
StoredFieldRef(index, j) ==
  LET struc == StoredStruct(index)
  IN IF struc.fields = 1 THEN struc.offset
     ELSE U32At(file, header.field_indices.offset + struc.offset + 4 * j)

\* the struct whose record the parser had just read when it returned the
\* Begin token trace[i], the field whose type and label it had just read when
\* it returned the Label token trace[i], and the list whose count it had just
\* read when it returned the ListBegin token trace[i]
StructRead(i) == (trace[i].pos - header.structs.offset - StructSize) \div StructSize
FieldRead(i) == (trace[i].pos - header.fields.offset - 8) \div FieldSize
ListRead(i) == trace[i].pos - header.list_indices.offset - 4

\* C3: the token stream honours the stored counts and orders. Between
\* Begin(n) and its End there are exactly n Labels at that nesting level
\* (never more while it is open), the k-th of them read from the k-th field
\* reference of the struct; between ListBegin(c) and its ListEnd there are
\* exactly c ItemBegins (never more while it is open), the k-th of them read
\* from the k-th struct index of the list; what is nested inside a field or
\* an item does not count.
CountsHonoured ==
  Parsing =>
    \A i \in 1..Len(trace) :
      LET inside == Inside(TokenShape, i)
          closed == Match(TokenShape, i) # 0
          labels == Sorted({k \in inside : Tokens[k].kind = "Label"})
          items == Sorted({k \in inside : Tokens[k].kind = "ItemBegin"})
      IN /\ Tokens[i].kind \in BeginKinds =>
              /\ Tokens[i].count = StoredStruct(StructRead(i)).fields
              /\ Len(labels) <= Tokens[i].count
              /\ closed => Len(labels) = Tokens[i].count
              /\ \A k \in 1..Len(labels) :
                   FieldRead(labels[k]) = StoredFieldRef(StructRead(i), k - 1)
         /\ Tokens[i].kind = "ListBegin" =>
              /\ Tokens[i].count = U32At(file, header.list_indices.offset + ListRead(i))
              /\ Len(items) <= Tokens[i].count
              /\ closed => Len(items) = Tokens[i].count
              /\ \A k \in 1..Len(items) :
                   StructRead(items[k]) =
                     U32At(file, header.list_indices.offset + ListRead(i) + 4 * k)

\* a two-field struct whose first field is a compound with a field of its own
\* has been closed, and so has a list of two items
CountsHonouredWitness ==
  /\ Parsing
  /\ \E i \in 1..Len(trace) :
       /\ Tokens[i].kind \in BeginKinds /\ Tokens[i].count = 2
       /\ Match(TokenShape, i) # 0
       /\ \E k \in Inside(TokenShape, i) :
            /\ TokenShape[k] = 1
            /\ \E m \in Inside(TokenShape, k) : Tokens[m].kind = "Label"
  /\ \E i \in 1..Len(trace) :
       Tokens[i].kind = "ListBegin" /\ Tokens[i].count = 2 /\ Match(TokenShape, i) # 0

----------------------------------------------------------------------------
(* C4 *)

\* C4: the index carried by an ItemBegin token is the 0-based ordinal of the
\* item in its list.
ItemIndexFromZero ==
  Parsing =>
    \A i \in 1..Len(trace) :
      Tokens[i].kind = "ListBegin" =>
        LET items == Sorted({k \in Inside(TokenShape, i) : Tokens[k].kind = "ItemBegin"})
        IN \A k \in 1..Len(items) : Tokens[items[k]].index = k - 1

----------------------------------------------------------------------------
(* C5 *)

\* C5: a file read to the end yields at least Header::token_count tokens.
TokenCountIsLowerBound ==
  Finished => Len(trace) >= token_count(header)

----------------------------------------------------------------------------
(* C6 *)

\* C6: once RootEnd has been returned the parser is in Finish, and from
\* Finish it never moves: next_token returns Error::ParsingFinished,
\* Iterator::next returns None, and neither changes the state, yields a token
\* or moves the reader.
FinishIsTerminal ==
  [][/\ (Parsing' /\ trace' # <<>> /\ trace'[Len(trace')].token.kind = "RootEnd")
          => state'.kind = "Finish"
     /\ Finished =>
          /\ state' = state /\ trace' = trace /\ pos' = pos
          /\ NextToken => result' = <<"Err", <<"ParsingFinished">>>>
          /\ IteratorNext => result' = <<"None">>]_vars

\* both calls have been made after the end of the root
FinishIsTerminalWitness ==
  /\ Finished
  /\ trace # <<>> /\ trace[Len(trace)].token.kind = "RootEnd"
  /\ result = <<"None">>

----------------------------------------------------------------------------
(* C7 *)

\* C7: what the tokenizer does with a struct record (tag, offset, count) it
\* opens. With count 0 it goes straight to the End token. With count 1 it
\* goes on to read the label of the field whose index in the fields pool is
\* offset, and that is the one field it reads. With count >= 2 it goes on to
\* read count field indices, starting at byte offset of the field indices,
\* and the j-th field it reads (j from 0) is the one whose index is the u32
\* at byte offset + 4 * j.
StructRecordUse ==
  Parsing =>
    \A i \in 1..Len(trace) :
      Tokens[i].kind \in BeginKinds =>
        LET struc == StoredStruct(StructRead(i))
            labels == Sorted({k \in Inside(TokenShape, i) : Tokens[k].kind = "Label"})
            next == IF i = Len(trace) THEN state.kind
                    ELSE Tokens[i + 1].kind
        IN /\ struc.fields = 0 =>
                /\ next \in EndKinds \cup {"EndRoot", "EndStruct", "EndItem"}
                /\ labels = <<>>
           /\ struc.fields = 1 =>
                /\ i = Len(trace) => state.kind = "ReadLabel" /\ state.index = struc.offset
                /\ i < Len(trace) => next = "Label" /\ FieldRead(i + 1) = struc.offset
                /\ Len(labels) <= 1
           /\ struc.fields >= 2 =>
                /\ i = Len(trace) =>
                     /\ state.kind = "ReadFields"
                     /\ state.index = <<struc.offset, 0>>
                     /\ state.count = struc.fields
                /\ i < Len(trace) => next = "Label"
                /\ Len(labels) <= struc.fields
                /\ \A j \in 1..Len(labels) :
                     FieldRead(labels[j]) =
                       U32At(file, header.field_indices.offset + struc.offset + 4 * (j - 1))

\* the parser has read an empty struct, a one-field struct whose offset is
\* not 0 and both fields of a two-field struct
StructRecordUseWitness ==
  /\ Finished
  /\ \E i \in 1..Len(trace) :
       Tokens[i].kind \in BeginKinds /\ StoredStruct(StructRead(i)).fields = 0
  /\ \E i \in 1..Len(trace) :
       /\ Tokens[i].kind \in BeginKinds
       /\ StoredStruct(StructRead(i)).fields = 1
       /\ StoredStruct(StructRead(i)).offset > 0
  /\ \E i \in 1..Len(trace) :
       /\ Tokens[i].kind \in BeginKinds
       /\ StoredStruct(StructRead(i)).fields = 2

----------------------------------------------------------------------------
(* C8, C9, C10: the records of the written file against the calls made *)

\* the driver's calls of one kind among the first p - 1 calls: the structs,
\* fields (one per label) and lists get their pool indices in this order
CallsBefore(ev, p) == {q \in 1..(p - 1) : events[q].ev = ev}

\* the calls of one kind made directly inside the struct or list opened by
\* call p, in order
CallsInside(ev, p) == Sorted({q \in Inside(EventShape, p) : events[q].ev = ev})

RECURSIVE SumOf(_, _)
\* the sum of n + extra over the calls of a set
SumOf(calls, extra) ==
  IF calls = {} THEN 0
  ELSE LET q == CHOOSE x \in calls : \A y \in calls : x <= y
       IN events[q].n + extra + SumOf(calls \ {q}, extra)

StoredField(index) ==
  LET at == header.fields.offset + FieldSize * index
  IN [tag |-> U32At(file, at), label |-> U32At(file, at + 4), data |-> U32At(file, at + 8)]

\* C8: a struct written with exactly one field has the record fields = 1,
\* offset = the index in the fields pool of its own field, whatever that field
\* is and whatever fields its contents added.
OneFieldRecord ==
  Parsing =>
    \A p \in 1..Len(events) :
      (events[p].ev = "struct" /\ events[p].n = 1) =>
        LET struc == StoredStruct(Cardinality(CallsBefore("struct", p)))
            own == CallsInside("label", p)
        IN /\ Len(own) = 1
           /\ struc.fields = 1
           /\ struc.offset = Cardinality(CallsBefore("label", own[1]))

\* a one-field struct that is not the first to get a field, whose field is a
\* struct or a list with a field inside, has been written
OneFieldRecordWitness ==
  /\ Parsing
  /\ \E p \in 1..Len(events) :
       /\ events[p].ev = "struct" /\ events[p].n = 1
       /\ CallsBefore("label", p) # {}
       /\ events[p + 2].ev \in {"struct", "list"}
       /\ \E q \in (p + 3)..Match(EventShape, p) : events[q].ev = "label"

\* C9: a struct written with n >= 2 fields has the record fields = n, offset
\* = 4 times the total number of fields of the structs with two or more
\* fields that were created before it; at that byte offset the field indices
\* hold the pool indices of its own n fields, in the order they were
\* serialized, also when structs with two or more fields were created while
\* it was open.
MultiFieldRecord ==
  Parsing =>
    \A p \in 1..Len(events) :
      (events[p].ev = "struct" /\ events[p].n >= 2) =>
        LET struc == StoredStruct(Cardinality(CallsBefore("struct", p)))
            own == CallsInside("label", p)
            earlier == {q \in CallsBefore("struct", p) : events[q].n >= 2}
        IN /\ Len(own) = events[p].n
           /\ struc.fields = events[p].n
           /\ struc.offset = 4 * SumOf(earlier, 0)
           /\ \A j \in 1..Len(own) :
                U32At(file, header.field_indices.offset + struc.offset + 4 * (j - 1))
                  = Cardinality(CallsBefore("label", own[j]))

\* a two-field struct has been written whose first field holds another
\* two-field struct
MultiFieldRecordWitness ==
  /\ Parsing
  /\ \E p \in 1..Len(events) :
       /\ events[p].ev = "struct" /\ events[p].n = 2
       /\ \E q \in (p + 1)..(CallsInside("label", p)[2] - 1) :
            events[q].ev = "struct" /\ events[q].n = 2

\* C10: a List field has as data the byte offset of its list in the list
\* indices, which is the sum of (length + 1) * 4 over the lists created
\* before it; at that offset stand the number of its elements and then the
\* struct indices of its elements in order, for nested and empty lists as
\* well.
ListRecord ==
  Parsing =>
    \A p \in 1..Len(events) :
      events[p].ev = "list" =>
        LET field == StoredField(Cardinality(CallsBefore("label", p - 1)))
            items == CallsInside("struct", p)
            at == header.list_indices.offset + field.data
        IN /\ events[p - 1].ev = "label"
           /\ field.tag = FieldType.List
           /\ field.data = 4 * SumOf(CallsBefore("list", p), 1)
           /\ Len(items) = events[p].n
           /\ U32At(file, at) = events[p].n
           /\ \A j \in 1..Len(items) :
                U32At(file, at + 4 * j) = Cardinality(CallsBefore("struct", items[j]))

\* a list of two elements whose first element holds an empty list has been
\* written
ListRecordWitness ==
  /\ Parsing
  /\ \E p \in 1..Len(events) :
       /\ events[p].ev = "list" /\ events[p].n = 2
       /\ \E q \in (p + 1)..(CallsInside("struct", p)[2] - 1) :
            events[q].ev = "list" /\ events[q].n = 0

----------------------------------------------------------------------------
(* C11 *)

\* the bytes an indirect value takes in the field data
DataSize(value) ==
  CASE value.tag \in {"Dword64", "Int64", "Double"} -> 8
    [] value.tag \in {"String", "Void"}             -> 4 + Len(value.bytes)
    [] OTHER                                         -> 0

RECURSIVE DataSizeOf(_)
\* the bytes the values of a sequence of calls take in the field data
DataSizeOf(calls) ==
  IF calls = <<>> THEN 0
  ELSE (IF Head(calls).ev = "value" THEN DataSize(Head(calls).value) ELSE 0)
       + DataSizeOf(Tail(calls))

\* C11: the written file is the header and the six sections in the order
\* structs, fields, labels, field data, field indices, list indices, each
\* starting where the one before ends: structs at byte 56, 12 bytes a
\* struct, 12 a field, 16 a label; the counts of the last three sections are
\* their sizes in bytes; the file ends where the list indices end.
SectionsLayout ==
  Parsing =>
    LET all == Len(events) + 1
    IN /\ header.structs.offset = 56
       /\ header.structs.count = Cardinality(CallsBefore("struct", all))
       /\ header.fields.offset = header.structs.offset + 12 * header.structs.count
       /\ header.fields.count = Cardinality(CallsBefore("label", all))
       /\ header.labels.offset = header.fields.offset + 12 * header.fields.count
       /\ header.labels.count =
            Cardinality({events[q].name : q \in CallsBefore("label", all)})
       /\ header.field_data.offset = header.labels.offset + 16 * header.labels.count
       /\ header.field_data.count = DataSizeOf(events)
       /\ header.field_indices.offset = header.field_data.offset + header.field_data.count
       /\ header.field_indices.count =
            4 * SumOf({q \in CallsBefore("struct", all) : events[q].n >= 2}, 0)
       /\ header.list_indices.offset =
            header.field_indices.offset + header.field_indices.count
       /\ header.list_indices.count = 4 * SumOf(CallsBefore("list", all), 1)
       /\ Len(file) = header.list_indices.offset + header.list_indices.count

\* a file in which none of the six sections is empty has been written
SectionsLayoutWitness ==
  /\ Parsing
  /\ header.labels.count = 2
  /\ header.field_data.count > 0
  /\ header.field_indices.count > 0
  /\ header.list_indices.count > 4

----------------------------------------------------------------------------
(* C12 *)

\* C12: every reference of the written file is valid. The root is struct 0;
\* the data of a Struct field and every entry of a list are indices of
\* structs of the file; a list lies inside the list indices; the field a
\* one-field struct names and the fields a struct of two or more fields
\* names in the field indices are fields of the file; the label of every
\* field is a label of the file; the field indices hold for every struct of
\* two or more fields as many indices as its record counts.
ReferencesValid ==
  Parsing =>
    /\ header.structs.count >= 1 /\ StoredStruct(0).fields = events[1].n
    /\ \A f \in 0..(header.fields.count - 1) :
         LET field == StoredField(f)
             count == U32At(file, header.list_indices.offset + field.data)
         IN /\ field.label < header.labels.count
            /\ field.tag = FieldType.Struct => field.data < header.structs.count
            /\ field.tag = FieldType.List =>
                 /\ field.data + 4 <= header.list_indices.count
                 /\ field.data + 4 + 4 * count <= header.list_indices.count
                 /\ \A j \in 1..count :
                      U32At(file, header.list_indices.offset + field.data + 4 * j)
                        < header.structs.count
    /\ \A index \in 0..(header.structs.count - 1) :
         LET struc == StoredStruct(index)
         IN /\ struc.fields = 1 => struc.offset < header.fields.count
            /\ struc.fields >= 2 =>
                 /\ struc.offset + 4 * struc.fields <= header.field_indices.count
                 /\ \A j \in 0..(struc.fields - 1) :
                      StoredFieldRef(index, j) < header.fields.count
    /\ \A i \in 1..Len(ser.structs) :
         ser.structs[i].kind = "MultiField" =>
           Len(ser.field_indices[ser.structs[i].list + 1]) = ser.structs[i].fields

\* a file with a Struct field, a list of two elements and a struct of two
\* fields has been written
ReferencesValidWitness ==
  /\ Parsing
  /\ \E f \in 0..(header.fields.count - 1) : StoredField(f).tag = FieldType.Struct
  /\ \E f \in 0..(header.fields.count - 1) :
       /\ StoredField(f).tag = FieldType.List
       /\ U32At(file, header.list_indices.offset + StoredField(f).data) = 2
  /\ \E index \in 0..(header.structs.count - 1) : StoredStruct(index).fields = 2

----------------------------------------------------------------------------
(* C13 *)

RECURSIVE FirstUses(_, _)
\* the names of the fields serialized by a sequence of calls, each once, in
\* the order of their first use, after those already seen
FirstUses(calls, seen) ==
  IF calls = <<>> THEN seen
  ELSE FirstUses(Tail(calls),
         IF Head(calls).ev = "label" /\ \A i \in 1..Len(seen) : seen[i] # Head(calls).name
         THEN Append(seen, Head(calls).name)
         ELSE seen)

\* C13: at every point of the serialization the labels pool holds the names
\* of the fields serialized so far, each once, in the order of their first
\* use, and every field carries the place of its name in that order: a name
\* used again gets the index of its first use and adds nothing to the pool.
LabelsInterned ==
  pc \in {"ser", "serialized"} =>
    LET names == FirstUses(events, <<>>)
        labelled == Sorted(CallsBefore("label", Len(events) + 1))
    IN /\ Len(ser.labels) = Len(names)
       /\ \A i \in 1..Len(names) : as_str(ser.labels[i]) = names[i]
       /\ Len(ser.fields) = Len(labelled)
       /\ \A j \in 1..Len(labelled) :
            names[ser.fields[j].label + 1] = events[labelled[j]].name

\* the first name has been used again after the second was added
LabelsInternedWitness ==
  /\ pc \in {"ser", "serialized"}
  /\ Len(ser.labels) = 2
  /\ \E j \in 3..Len(ser.fields) : ser.fields[j].label = 0 /\ ser.fields[j - 1].label = 1

----------------------------------------------------------------------------
(* C14 *)

----------------------------------------------------------------------------
RECURSIVE Run(_, _, _)
\* what the next n calls of next_token return, up to the first error, when the
\* parser is in state st and its reader at byte offset at
Run(st, at, n) ==
  IF n = 0 THEN <<>>
  ELSE CHOOSE run \in {IF r.ok THEN <<<<"Ok", r.token>>>> \o Run(r.state, r.pos, n - 1)
                       ELSE <<<<"Err", r.err>>>> : r \in {State_next(st, at)}} : TRUE

\* the tokens still to come
Rest == Run(state, pos, MaxTokens)

\* C15: a call of read_label that returns a label leaves the reader at the
\* position it had before the call, and the state of the parser, the file and
\* the tokens returned so far as they were: the tokens still to come, which
\* these determine, are those that would have come without the call
ReadLabelKeepsPosition ==
  [][ReadLabelCall /\ result'[1] = "Label"
       => /\ pos' = pos
          /\ state' = state
          /\ <<file, header, trace>>' = <<file, header, trace>>]_vars

\* a label was read between two tokens, with tokens still to come
ReadLabelKeepsPositionWitness ==
  /\ Parsing
  /\ result # <<>> /\ result[1] = "Label"
  /\ state.kind = "ReadField"
  /\ pos # HeaderSize

\* the results of the calls of next_token so far when the last one returned
\* ParsingFinished
Returned ==
  [i \in 1..Len(trace) |-> <<"Ok", trace[i].token>>] \o <<<<"Err", <<"ParsingFinished">>>>>>

\* where the last call of next_token left the reader
LeftAt == trace[Len(trace)].pos

\* C16: read_value called right after its Value token moves the reader and
\* nothing else, and the tokens returned afterwards are those returned
\* without the call: wherever the reader is not where next_token left it the
\* tokens to come are the same from both positions, and a file read to its
\* end with such calls in between has given the tokens that a reading with
\* no call in between gives
ReadValueHarmless ==
  /\ (Parsing /\ trace # <<>> /\ pos # LeftAt)
       => Rest = Run(state, LeftAt, MaxTokens)
  /\ Finished => Returned = Run(Start, HeaderSize, MaxTokens)

\* a value was read from the field data, the reader is somewhere else than
\* next_token left it, and the next step (the end of a struct) does not seek
ReadValueHarmlessWitness ==
  /\ Parsing
  /\ result # <<>> /\ result[1] = "Value"
  /\ result[2].tag \in {"Int64", "String"}
  /\ pos # LeftAt
  /\ state.kind = "EndStruct"
  /\ Len(Rest) > 3

\* C17: read_value called after a Label token and before the next call of
\* next_token does not change the tokens returned afterwards: the tokens to
\* come are the same from where the call has left the reader as from where
\* next_token had left it
ReadAfterLabelHarmless ==
  (pc = "disturbed" /\ trace # <<>> /\ pos # LeftAt)
    => Rest = Run(state, LeftAt, MaxTokens)

\* the fields of the file whose type code is none of 0..15
UnknownFields ==
  {f \in 0..(header.fields.count - 1) : StoredField(f).tag \notin 0..15}

\* C18: in a file with a field of a type code outside 0..15 the Label token
\* of that field is returned, and the call of next_token after it returns
\* UnknownValue with that type code and the 4 data bytes of the field as a
\* little-endian u32; the parser stays where it was after the Label token,
\* no Value token follows that label and the file is not read to its end
UnknownValueReported ==
  (Parsing /\ UnknownFields # {}) =>
    \A f \in UnknownFields :
      LET field == StoredField(f)
          error == <<"UnknownValue", field.tag, field.data>>
      IN /\ (state.kind = "ReadField" /\ state.tag = field.tag) =>
              /\ Tokens[Len(trace)] = Label(field.label)
              /\ ~State_next(state, LeftAt).ok
              /\ State_next(state, LeftAt).err = error
         /\ (result # <<>> /\ result[1] = "Err") =>
              /\ result[2] = error
              /\ state.kind = "ReadField" /\ state.tag = field.tag
              /\ Tokens[Len(trace)] = Label(field.label)
         /\ ~Finished

\* next_token has returned UnknownValue for a field of type 4096 whose data
\* word is not zero, after the tokens of other fields
UnknownValueReportedWitness ==
  /\ Parsing
  /\ result # <<>> /\ result[1] = "Err" /\ result[2][1] = "UnknownValue"
  /\ result[2][2] = 4096 /\ result[2][3] > 0
  /\ Len(trace) > 4
  /\ Tokens[Len(trace)].kind = "Label"

\* C20: Iterator::next returns a token or ends the iteration with None, when
\* the file has been read to its end and when reading the next token fails
IteratorEndsWithNone ==
  (Parsing /\ result # <<>>) => result[1] \in {"Some", "None"}

\* where the last successful call of next_token, or Parser::new, left the reader
Left == IF trace = <<>> THEN HeaderSize ELSE LeftAt

\* C19: after a call of next_token that failed with an I/O error the parser
\* is as it was before the call: the calls that follow return the token the
\* failed call would have returned and the tokens that would have come after it
IoErrorKeepsParser ==
  (pc = "retry" /\ pos # Left) => Rest = Run(state, Left, MaxTokens)

----------------------------------------------------------------------------
(* Whole values *)

\* the caller has the bytes of its value, or reads them
Written == pc \in {"written", "parse"}

\* the empty document: a header of 56 bytes with one struct at offset 56 and
\* five empty sections at offset 68, and the struct record 0, 0, 0
EmptyFile ==
  Signature \o V3_2 \o LE(56, 4) \o LE(1, 4)
    \o Concat([i \in 1..5 |-> LE(68, 4) \o LE(0, 4)])
    \o Zeros(12)

\* C21: the unit value, a unit struct and None at top level are written as
\* the 68 bytes of the empty document, and the tokens of those bytes are
\* RootBegin { tag: 0, count: 0 }, RootEnd and then the end of the stream
EmptyDocument ==
  (Written /\ input.t \in {"unit", "unit_struct", "none"}) =>
    /\ outcome = "Ok"
    /\ Len(file) = 68
    /\ file = EmptyFile
    /\ pc = "parse" =>
         Run(Start, HeaderSize, MaxTokens) =
           << <<"Ok", RootBegin(0, 0)>>, <<"Ok", RootEnd>>, <<"Err", <<"ParsingFinished">>>> >>

\* None was written and its bytes were read to the end
EmptyDocumentWitness ==
  /\ pc = "parse" /\ input = None
  /\ Len(file) = 68
  /\ Len(trace) = 2
  /\ result = <<"Err", <<"ParsingFinished">>>>

\* to_writer has returned or panicked
ToWriterReturned == pc \in {"failed", "written", "parse"}

RECURSIVE Unwrapped(_)
\* the value inside the Some and newtype wrappers of v
Unwrapped(v) == IF v.t \in {"some", "newtype"} THEN Unwrapped(v.items[1]) ELSE v

\* the kinds of value that are no struct, unit or None (and no map)
NotAStruct ==
  Scalars \cup {"bool", "char", "str", "bytes", "resref", "seq", "tuple", "tuple_struct"}

\* C22: to_writer of a number, bool, char, string, byte array, sequence or
\* tuple at top level, bare or inside Some or a newtype, returns an error and
\* leaves the sink without a byte
TopLevelUnsupported ==
  (ToWriterReturned /\ Unwrapped(input).t \in NotAStruct) =>
    /\ outcome = "Err"
    /\ pc = "failed"
    /\ file = <<>>

\* to_writer has returned for a tuple inside Some
TopLevelUnsupportedWitness ==
  /\ pc = "failed" /\ outcome = "Err" /\ file = <<>>
  /\ input.t = "some" /\ input.items[1].t = "tuple"
  /\ Len(input.items[1].items) = 2

\* the value of the only field of the struct given to to_writer
OnlyField == Unwrapped(input.items[1][2])

\* the input is a struct with one field that holds a sequence or a tuple
ListInput ==
  /\ ToWriterReturned
  /\ input.t = "struct" /\ Len(input.items) = 1
  /\ OnlyField.t \in {"seq", "tuple", "tuple_struct"}

\* the kinds of value that are written as a struct
StructLike == {"unit", "unit_struct", "none", "struct"}

\* C23: a sequence or tuple in a struct field is written as a List field
\* whose list holds, in order, the indices of the structs its elements are
\* written as, and if an element is not a struct the serialization returns
\* an error
ListOfStructs ==
  ListInput =>
    LET items == OnlyField.items
        kinds == {Unwrapped(items[i]).t : i \in 1..Len(items)}
    IN /\ kinds \subseteq StructLike =>
            /\ outcome = "Ok"
            /\ ser.fields[1] = FieldList(0, 0)
            /\ ser.structs[1] = OneField(0)
            /\ ser.list_indices = <<[i \in 1..Len(items) |-> i]>>
            /\ Len(ser.structs) = 1 + Len(items)
            /\ \A i \in 1..Len(items) :
                 ser.structs[i + 1].fields = Len(Unwrapped(items[i]).items)
       /\ (kinds \cap NotAStruct # {} /\ "map" \notin kinds) =>
            /\ outcome = "Err"
            /\ file = <<>>

\* a tuple of a struct with a field and of None was written and read back
ListOfStructsWitness ==
  /\ pc = "parse" /\ Finished
  /\ ListInput
  /\ OnlyField.t = "tuple"
  /\ Len(OnlyField.items) = 2
  /\ OnlyField.items[1].t = "struct" /\ Len(OnlyField.items[1].items) = 1
  /\ OnlyField.items[2].t = "none"
  /\ Len(trace) = 11

\* the struct with the keys of map m as field names, and whether the keys
\* of m are strings
AsStruct(m) == Compound("struct", [i \in 1..Len(m.items) |-> <<m.items[i][1].b, m.items[i][2]>>])
StringKeys(m) == \A i \in 1..Len(m.items) : m.items[i][1].t = "str"

\* C24: a map with string keys is written as the struct with the same field
\* names and values (an empty map as the unit value), and a map with other
\* keys is refused with an error, at top level and in a struct field
MapAsStruct ==
  /\ (ToWriterReturned /\ input.t = "map") =>
       IF StringKeys(input)
       THEN outcome = "Ok" /\ file = to_writer(AsStruct(input)).sink
       ELSE outcome = "Err"
  /\ (ToWriterReturned /\ input.t = "struct" /\ Len(input.items) = 1
        /\ input.items[1][2].t = "map") =>
       IF StringKeys(input.items[1][2])
       THEN /\ outcome = "Ok"
            /\ file = to_writer(Compound("struct",
                        <<<<input.items[1][1], AsStruct(input.items[1][2])>>>>)).sink
       ELSE outcome = "Err"

\* the input is a struct with one field
OneFieldInput == ToWriterReturned /\ input.t = "struct" /\ Len(input.items) = 1

\* the struct with the one field of the input holding v instead
WithField(v) == Compound("struct", <<<<input.items[1][1], v>>>>)

\* the bytes of the first field record of the file: type, label, data
FirstFieldRecord == SubSeq(file, HeaderSize + StructSize * Len(ser.structs) + 1,
                                 HeaderSize + StructSize * Len(ser.structs) + FieldSize)

\* C25: in a struct field Some(x) is written as x is, None is written as the
\* unit value is, a field of type Struct (14) that refers to a new struct of
\* no fields, and a bool is written as a Byte field of 1 for true and 0 for
\* false
OptionAndBoolFields ==
  OneFieldInput =>
    LET v == input.items[1][2]
    IN /\ v.t = "some" =>
            /\ outcome = to_writer(WithField(v.items[1])).res
            /\ file = to_writer(WithField(v.items[1])).sink
       /\ v.t = "none" =>
            /\ outcome = "Ok"
            /\ file = to_writer(WithField(Unit)).sink
            /\ ser.fields = <<FieldStruct(0, 1)>>
            /\ ser.structs = <<OneField(0), NoFields>>
            /\ FirstFieldRecord = LE(14, 4) \o LE(0, 4) \o LE(1, 4)
       /\ v.t = "bool" =>
            /\ outcome = "Ok"
            /\ ser.fields = <<FieldSimple(0, SimpleValueRef("Byte", v.n))>>
            /\ FirstFieldRecord = LE(0, 4) \o LE(0, 4) \o <<v.n, 0, 0, 0>>

\* a struct whose field is None was written and its bytes were read to the end
OptionAndBoolFieldsWitness ==
  /\ OneFieldInput /\ outcome = "Ok"
  /\ input.items[1][2].t = "none"
  /\ Finished
  /\ Tokens = <<RootBegin(0, 1), Label(0), StructBegin(0, 0), StructEnd, RootEnd>>

RECURSIVE Payloads(_)
\* what the values of v that are stored out of line occupy in field_data, in
\* the order of the fields: 8 bytes for a 64-bit number, a u32 length and
\* the bytes for a string or a byte array
Payloads(v) ==
  CASE v.t \in {"u64", "i64", "f64"} -> <<LE(v.n, 8)>>
    [] v.t \in {"char", "str", "bytes", "resref"} -> <<LE(Len(v.b), 4) \o v.b>>
    [] v.t \in {"some", "newtype"} -> Payloads(v.items[1])
    [] v.t \in {"seq", "tuple", "tuple_struct"} ->
         Concat([i \in 1..Len(v.items) |-> Payloads(v.items[i])])
    [] v.t = "struct" ->
         Concat([i \in 1..Len(v.items) |-> Payloads(v.items[i][2])])
    [] OTHER -> <<>>

\* the indices, from 1, of the field records whose data is an offset into field_data
IndirectFields ==
  {i \in 1..Len(ser.fields) :
     /\ ser.fields[i].kind = "Simple"
     /\ ser.fields[i].value.tag \in {"Dword64", "Int64", "Double", "String", "Void"}}

\* the bytes of the field_data section of the file
FieldDataOf(bytes) ==
  SubSeq(bytes, header_read(bytes).field_data.offset + 1,
                header_read(bytes).field_data.offset + header_read(bytes).field_data.count)

\* the data word of field record i (from 1) of the file
FieldWordOf(bytes, i) ==
  U32At(bytes, header_read(bytes).fields.offset + FieldSize * (i - 1) + 8)

\* C26: the values stored out of line lie in field_data one after another in
\* the order of their fields, a 64-bit number as 8 little-endian bytes and a
\* string or byte array as a u32 length and its bytes; the record of the
\* k-th of them holds the sum of the sizes of those before it, and the count
\* of the section is the sum of all sizes
IndirectValuesContiguous ==
  (Written /\ outcome = "Ok") =>
    LET payloads == Payloads(input)
    IN /\ ser.field_data = Concat(payloads)
       /\ FieldDataOf(file) = Concat(payloads)
       /\ header_read(file).field_data.count = SumLen(payloads, 0)
       /\ Cardinality(IndirectFields) = Len(payloads)
       /\ \A i \in IndirectFields :
            LET k == Cardinality({j \in IndirectFields : j < i})
            IN /\ ser.fields[i].value.val = SumLen(SubSeq(payloads, 1, k), 0)
               /\ FieldWordOf(file, i) = SumLen(SubSeq(payloads, 1, k), 0)

\* a struct with a string and then a 64-bit number was written
IndirectValuesContiguousWitness ==
  /\ Written /\ outcome = "Ok"
  /\ input.t = "struct" /\ Len(input.items) = 2
  /\ input.items[1][2] = Bytes("str", <<104, 105, 33>>)
  /\ input.items[2][2] = Scalar("i64", -3)
  /\ Len(ser.field_data) = 15
  /\ FieldWordOf(file, 2) = 7

\* C27: a ResRef in a struct field is written as a field of type 11 with, in
\* field_data, one byte of length and the bytes; one of 255 bytes has the
\* length byte 255 and one of 256 bytes or more is refused with an error
ResRefEncoding ==
  (OneFieldInput /\ input.items[1][2].t = "resref") =>
    LET b == input.items[1][2].b
    IN IF Len(b) > 255 THEN outcome = "Err" /\ file = <<>>
       ELSE /\ outcome = "Ok"
            /\ SubSeq(FirstFieldRecord, 1, 4) = LE(11, 4)
            /\ FieldDataOf(file) = <<Len(b)>> \o b

----------------------------------------------------------------------------
(* The Deserializer: skipping and looking ahead *)

\* the nesting of the results of next_token: a token that opens, a token that
\* closes, and anything else
ShapeOf(run) ==
  [i \in 1..Len(run) |->
     CASE run[i][1] = "Ok" /\ run[i][2].kind \in BeginKinds \cup {"ListBegin"} -> 1
       [] run[i][1] = "Ok" /\ run[i][2].kind \in EndKinds \cup {"ListEnd"} -> -1
       [] OTHER -> 0]

\* where, in the results to come, the token is that closes what the token
\* returned last has opened; 0 when it does not come
CloseIn(run) ==
  LET close == Match(<<1>> \o ShapeOf(run), 1)
  IN IF close = 0 THEN 0 ELSE close - 1

\* C28: skip_next with the token that opens a struct or a list and that the
\* call of next_token before it has returned leaves the parser where the next
\* call of next_token returns the token that follows the matching close token
\* in the stream without the skip, and the calls after it the tokens that
\* follow that one: no token of what was opened, its close token included, is
\* returned
SkipPassesSubtree ==
  [][SkipNext =>
       /\ CloseIn(Rest) >= 1
       /\ Rest' = SubSeq(Rest, CloseIn(Rest) + 1, Len(Rest))]_vars

\* a struct with a field that holds a struct with a field was written, the
\* StructBegin of the inner struct was skipped, and the next token was the
\* RootEnd
SkipPassesSubtreeWitness ==
  /\ Parsing
  /\ Len(trace) = 4
  /\ Tokens[3] = StructBegin(0, 1)
  /\ Tokens[4] = RootEnd
  /\ result = <<"Ok", RootEnd>>

\* C29: one token is looked at ahead. At every moment the tokens next_token
\* has returned, followed by the token held in `peeked`, are the tokens the
\* parser has produced, in order, none lost and none twice; a token next_token
\* has just returned is the last one the parser produced, and so is the token
\* peek_token has just shown, which stays in `peeked`. A peek_token with a
\* token in `peeked` returns that token and leaves the parser alone, one with
\* none takes one token from the parser, and a next_token after a peek_token
\* returns the token shown and leaves the parser alone: the two calls move
\* the parser by one token.
OneTokenLookahead ==
  /\ [](Parsing =>
          /\ taken \o peeked = Tokens
          /\ Len(peeked) <= 1
          /\ (result # <<>> /\ result[1] = "Ok") =>
               /\ peeked = <<>>
               /\ result[2] = Tokens[Len(trace)]
               /\ result[2] = taken[Len(taken)]
          /\ (result # <<>> /\ result[1] = "Peek") =>
               /\ peeked = <<result[2]>>
               /\ result[2] = Tokens[Len(trace)])
  /\ [][(DePeekToken /\ peeked # <<>>) =>
          /\ result' = <<"Peek", peeked[1]>>
          /\ <<peeked, state, pos, trace, taken>>' = <<peeked, state, pos, trace, taken>>]_vars
  /\ [][(DePeekToken /\ peeked = <<>> /\ result'[1] = "Peek") =>
          /\ Len(trace') = Len(trace) + 1
          /\ taken' = taken]_vars
  /\ [][(DeNextToken /\ peeked # <<>>) =>
          /\ result' = <<"Ok", peeked[1]>>
          /\ <<state, pos, trace>>' = <<state, pos, trace>>]_vars

\* two tokens were taken, one of them after it had been looked at, and a
\* third is looked at and held
OneTokenLookaheadWitness ==
  /\ Parsing
  /\ Len(taken) = 2
  /\ Len(trace) = 3
  /\ peeked = <<Tokens[3]>>
  /\ result = <<"Peek", Tokens[3]>>

\* what the calls of Deserializer::next_token to come return: the token held
\* in `peeked` and then what the parser gives
Coming == [i \in 1..Len(peeked) |-> <<"Ok", peeked[i]>>] \o Rest

\* the end of the stream
NoMore == << <<"Err", <<"ParsingFinished">>>> >>

\* C30: deserialize_unit (deserialize_unit_struct is the same call) takes any
\* struct for unit: when the token to come is a RootBegin, StructBegin or
\* ItemBegin, whatever the number of fields, it returns unit and the tokens
\* to come after the call are those behind the End token of that struct; when
\* another token is to come it returns Error::Unexpected with that token.
\* From the empty document, (), a unit struct and a struct without fields are
\* deserialized with success and nothing is left to read.
UnitAcceptsAnyStruct ==
  /\ [][DeserializeUnit =>
          IF Coming[1][1] = "Ok" /\ Coming[1][2].kind \in BeginKinds
          THEN /\ result' = <<"Unit">>
               /\ CloseIn(Tail(Coming)) >= 1
               /\ Coming' = SubSeq(Coming, CloseIn(Tail(Coming)) + 2, Len(Coming))
          ELSE IF Coming[1][1] = "Ok"
               THEN result' = <<"Err", <<"Unexpected", Coming[1][2]>>>>
               ELSE result' = <<"Err", Coming[1][2]>>]_vars
  /\ [][(DeserializeUnit /\ file = EmptyFile /\ trace = <<>>) =>
          result' = <<"Unit">> /\ Coming' = NoMore]_vars
  /\ [][(DeserializeStruct /\ file = EmptyFile /\ trace = <<>>) =>
          result' = <<"Struct">> /\ Coming' = NoMore]_vars

\* a struct with two fields was deserialized as unit: the parser gave the
\* RootBegin and nothing else, and nothing is left to read
UnitAcceptsAnyStructWitness ==
  /\ Parsing
  /\ result = <<"Unit">>
  /\ Tokens = <<RootBegin(0, 2)>>
  /\ taken = Tokens
  /\ state.kind = "Finish"

----------------------------------------------------------------------------
(* string.rs: localized strings *)

\* the bitwise or of two numbers that are not negative
RECURSIVE BitOr(_, _)
BitOr(a, b) ==
  IF a = 0 THEN b
  ELSE IF b = 0 THEN a
  ELSE (IF a % 2 = 1 \/ b % 2 = 1 THEN 1 ELSE 0) + 2 * BitOr(a \div 2, b \div 2)

\* enum Language and enum Gender, #[repr(u32)]
Language == {0, 1, 2, 3, 4, 5, 128, 129, 130, 131}
Gender == {0, 1}

\* a key that adds the gender to the language without the shift
StringKey_from_no_shift(language, gender) == BitOr(language, gender)

\* From<(Language, Gender)> for StringKey
StringKey_from(language, gender) == BitOr(language * 2, gender)

\* StringKey::language: transmute(self.0 >> 1), a Language when the number is
\* one of the enum and no valid value ("invalid") when it is not
StringKey_language(key) ==
  IF key \div 2 \in Language THEN key \div 2 ELSE "invalid"

\* StringKey::gender: transmute(self.0 % 2)
StringKey_gender(key) == key % 2

\* Into<u32> for StringKey
StringKey_into(key) == key

\* StrRef(0xFFFFFFFF), as the 32 bits read as a signed number
NoStrRef == -1

\* LocString { str_ref, strings }: strings is a Vec of (key, string)
LocString(str_ref, strings) == [kind |-> "LocString", str_ref |-> str_ref, strings |-> strings]

\* GffString::External(str_ref) and GffString::Internal(map)
External(str_ref) == [kind |-> "External", str_ref |-> str_ref, strings |-> <<>>]
Internal(map) == [kind |-> "Internal", str_ref |-> NoStrRef, strings |-> map]

\* a collect in which the first text listed for a key stays
collect_first_stays(strings) ==
  [k \in {strings[i][1] : i \in 1..Len(strings)} |->
     strings[CHOOSE i \in 1..Len(strings) :
               /\ strings[i][1] = k
               /\ \A j \in 1..(i - 1) : strings[j][1] # k][2]]

\* collect::<HashMap<StringKey, String>>() of the (key, string) pairs in
\* order: an insert replaces the text the key had
RECURSIVE collect(_)
collect(strings) ==
  IF strings = <<>> THEN <<>>
  ELSE LET before == collect(SubSeq(strings, 1, Len(strings) - 1))
           last == strings[Len(strings)]
       IN [k \in DOMAIN before \cup {last[1]} |-> IF k = last[1] THEN last[2] ELSE before[k]]

\* From<LocString> for GffString
GffString_from(value) ==
  IF value.str_ref = NoStrRef THEN Internal(collect(value.strings))
  ELSE External(value.str_ref)

\* From<GffString> for LocString; order is the order in which the HashMap
\* hands out its entries
LocString_from(value, order) ==
  IF value.kind = "External" THEN LocString(value.str_ref, <<>>)
  ELSE LocString(NoStrRef, [i \in 1..Len(order) |-> <<order[i], value.strings[order[i]]>>])

\* the orders in which the keys of a set can come
Orders(keys) ==
  {order \in [1..Cardinality(keys) -> keys] :
     \A i, j \in 1..Cardinality(keys) : order[i] = order[j] => i = j}

MaxSubStrings == 3

\* the values the caller has: pairs of a language and a gender, LocStrings
\* and GffStrings over a few references, keys and texts
StrRefs == {0, 5, 2147483647, -2, NoStrRef}
Keys == {StringKey_from(0, 0), StringKey_from(0, 1), StringKey_from(131, 1)}
Texts == {<<>>, <<104>>, <<104, 105>>}
Pairs == {[kind |-> "Pair", str_ref |-> 0, strings |-> <<language, gender>>] :
            language \in Language, gender \in Gender}
LocStrings ==
  {LocString(r, strings) :
     r \in StrRefs,
     strings \in UNION {[1..n -> Keys \X Texts] : n \in 0..MaxSubStrings}}
GffStrings ==
  {External(r) : r \in StrRefs}
    \cup {Internal(map) : map \in UNION {[keys -> Texts] : keys \in SUBSET Keys}}

\* StringKey::from((language, gender))
StringKeyFrom ==
  /\ pc = "string" /\ input.kind = "Pair"
  /\ made' = StringKey_from(input.strings[1], input.strings[2])
  /\ pc' = "key"
  /\ UNCHANGED filevars
  /\ UNCHANGED devars
  /\ UNCHANGED <<text, shown, input, outcome>>

\* key.language(), key.gender() and key.into() of the key made
KeyLanguage ==
  /\ pc = "key"
  /\ shown' = <<"language", StringKey_language(made)>>
  /\ UNCHANGED filevars
  /\ UNCHANGED devars
  /\ UNCHANGED <<pc, text, made, input, outcome>>

KeyGender ==
  /\ pc = "key"
  /\ shown' = <<"gender", StringKey_gender(made)>>
  /\ UNCHANGED filevars
  /\ UNCHANGED devars
  /\ UNCHANGED <<pc, text, made, input, outcome>>

KeyInto ==
  /\ pc = "key"
  /\ shown' = <<"u32", StringKey_into(made)>>
  /\ UNCHANGED filevars
  /\ UNCHANGED devars
  /\ UNCHANGED <<pc, text, made, input, outcome>>

\* GffString::from(loc_string)
LocToGff ==
  /\ pc = "string" /\ input.kind = "LocString"
  /\ made' = GffString_from(input)
  /\ pc' = "gff"
  /\ UNCHANGED filevars
  /\ UNCHANGED devars
  /\ UNCHANGED <<text, shown, input, outcome>>

\* LocString::from(gff_string)
GffToLoc ==
  /\ pc = "string" /\ input.kind \in {"External", "Internal"}
  /\ \E order \in Orders(DOMAIN input.strings) : made' = LocString_from(input, order)
  /\ pc' = "loc"
  /\ UNCHANGED filevars
  /\ UNCHANGED devars
  /\ UNCHANGED <<text, shown, input, outcome>>

\* GffString::from of the LocString made
LocBackToGff ==
  /\ pc = "loc"
  /\ shown' = GffString_from(made)
  /\ pc' = "back"
  /\ UNCHANGED filevars
  /\ UNCHANGED devars
  /\ UNCHANGED <<text, made, input, outcome>>

InitString ==
  /\ pc = "string"
  /\ input \in Pairs \cup LocStrings \cup GffStrings
  /\ text = <<>>
  /\ made = <<>>
  /\ shown = <<>>
  /\ ser = Serializer
  /\ stack = <<>>
  /\ events = <<>>
  /\ file = <<>>
  /\ header = <<>>
  /\ pos = 0
  /\ state = Finish
  /\ result = <<>>
  /\ trace = <<>>
  /\ outcome = <<>>
  /\ peeked = <<>>
  /\ taken = <<>>

NextString ==
  \/ StringKeyFrom
  \/ KeyLanguage
  \/ KeyGender
  \/ KeyInto
  \/ LocToGff
  \/ GffToLoc
  \/ LocBackToGff

SpecString == InitString /\ [][NextString]_vars

----------------------------------------------------------------------------
(* sig.rs: the signature of a file *)

\* From<[u8; 4]> for Signature: the arms of the match, b"IFO " => IFO and so on
Signature_from_arms ==
  { <<<<73, 70, 79, 32>>, "IFO">>,
    <<<<65, 82, 69, 32>>, "ARE">>,
    <<<<71, 73, 84, 32>>, "GIT">>,
    <<<<71, 73, 67, 32>>, "GIC">>,
    <<<<85, 84, 67, 32>>, "UTC">>,
    <<<<85, 84, 68, 32>>, "UTD">>,
    <<<<85, 84, 69, 32>>, "UTE">>,
    <<<<85, 84, 73, 32>>, "UTI">>,
    <<<<85, 84, 80, 32>>, "UTP">>,
    <<<<85, 84, 83, 32>>, "UTS">>,
    <<<<85, 84, 77, 32>>, "UTM">>,
    <<<<85, 84, 84, 32>>, "UTT">>,
    <<<<85, 84, 87, 32>>, "UTW">>,
    <<<<68, 76, 71, 32>>, "DLG">>,
    <<<<74, 82, 76, 32>>, "JRL">>,
    <<<<70, 65, 67, 32>>, "FAC">>,
    <<<<73, 84, 80, 32>>, "ITP">>,
    <<<<80, 84, 77, 32>>, "PTM">>,
    <<<<80, 84, 84, 32>>, "PTT">>,
    <<<<66, 73, 67, 32>>, "BIC">> }

\* AsRef<[u8]> for Signature: the arms of the match, IFO => b"IFO " and so on
Signature_as_ref_arms ==
  { <<"IFO", <<73, 70, 79, 32>>>>,
    <<"ARE", <<65, 82, 69, 32>>>>,
    <<"GIT", <<71, 73, 84, 32>>>>,
    <<"GIC", <<71, 73, 67, 32>>>>,
    <<"UTC", <<85, 84, 67, 32>>>>,
    <<"UTD", <<85, 84, 68, 32>>>>,
    <<"UTE", <<85, 84, 69, 32>>>>,
    <<"UTI", <<85, 84, 73, 32>>>>,
    <<"UTP", <<85, 84, 80, 32>>>>,
    <<"UTS", <<85, 84, 83, 32>>>>,
    <<"UTM", <<85, 84, 77, 32>>>>,
    <<"UTT", <<85, 84, 84, 32>>>>,
    <<"UTW", <<85, 84, 87, 32>>>>,
    <<"DLG", <<68, 76, 71, 32>>>>,
    <<"JRL", <<74, 82, 76, 32>>>>,
    <<"FAC", <<70, 65, 67, 32>>>>,
    <<"ITP", <<73, 84, 80, 32>>>>,
    <<"PTM", <<80, 84, 77, 32>>>>,
    <<"PTT", <<80, 84, 84, 32>>>>,
    <<"BIC", <<66, 73, 67, 32>>>> }

\* Signature::Other(arr) and the variants with a name
Other(arr) == [name |-> "Other", bytes |-> arr]
Named(name) == [name |-> name, bytes |-> <<>>]

\* a conversion that looks at the three letters only
Signature_from_three_letters(arr) ==
  LET arms == {arm \in Signature_from_arms : SubSeq(arm[1], 1, 3) = SubSeq(arr, 1, 3)}
  IN IF arms = {} THEN Other(arr) ELSE Named((CHOOSE arm \in arms : TRUE)[2])

\* From<[u8; 4]> for Signature
Signature_from(arr) ==
  LET arms == {arm \in Signature_from_arms : arm[1] = arr}
  IN IF arms = {} THEN Other(arr) ELSE Named((CHOOSE arm \in arms : TRUE)[2])

\* AsRef<[u8]> for Signature, which Signature::write writes
Signature_as_ref(sig) ==
  IF sig.name = "Other" THEN sig.bytes
  ELSE (CHOOSE arm \in Signature_as_ref_arms : arm[1] = sig.name)[2]

\* the tags the caller has: those with a name, those with one byte of them
\* changed, and a few others
OtherBytes == {0, 32, 97, 255}
Tags ==
  {arm[1] : arm \in Signature_from_arms}
    \cup {[arm[1] EXCEPT ![i] = c] : arm \in Signature_from_arms, i \in 1..4, c \in OtherBytes}
    \cup {Signature, <<0, 0, 0, 0>>, <<255, 255, 255, 255>>}

\* Signature::from(tag), as Signature::read does with the 4 bytes it has read
SignatureFrom ==
  /\ pc = "tag"
  /\ made' = Signature_from(text)
  /\ pc' = "signature"
  /\ UNCHANGED filevars
  /\ UNCHANGED valuevars
  /\ UNCHANGED devars
  /\ UNCHANGED <<text, shown>>

\* Signature::write of the signature made
SignatureWrite ==
  /\ pc = "signature"
  /\ shown' = Signature_as_ref(made)
  /\ pc' = "tag written"
  /\ UNCHANGED filevars
  /\ UNCHANGED valuevars
  /\ UNCHANGED devars
  /\ UNCHANGED <<text, made>>

InitSignature ==
  /\ pc = "tag"
  /\ text \in Tags
  /\ made = <<>>
  /\ shown = <<>>
  /\ ser = Serializer
  /\ stack = <<>>
  /\ events = <<>>
  /\ file = <<>>
  /\ header = <<>>
  /\ pos = 0
  /\ state = Finish
  /\ result = <<>>
  /\ trace = <<>>
  /\ input = <<>>
  /\ outcome = <<>>
  /\ peeked = <<>>
  /\ taken = <<>>

NextSignature == SignatureFrom \/ SignatureWrite

SpecSignature == InitSignature /\ [][NextSignature]_vars

----------------------------------------------------------------------------
(* header.rs, sig.rs, ver.rs: Header::read from any reader *)

\* Read::read_exact of n bytes with the reader at byte offset at: all of them,
\* however many calls of read it takes, or an error when the source ends
read_exact(source, at, n) ==
  IF Len(source) - at >= n
  THEN [ok |-> TRUE, bytes |-> SubSeq(source, at + 1, at + n), pos |-> at + n]
  ELSE [ok |-> FALSE, bytes |-> <<>>, pos |-> Len(source)]

\* one call of Read::read into a zeroed buffer of n bytes that delivers got
\* bytes: the buffer afterwards, and no error
read(source, at, n, got) ==
  [ok |-> TRUE, bytes |-> SubSeq(source, at + 1, at + got) \o Zeros(n - got), pos |-> at + got]

\* what one call of read may deliver into a buffer of n bytes: nothing at the
\* end of the source, and at least one byte before it
Delivered(source, at, n) ==
  IF Len(source) <= at THEN {0}
  ELSE {got \in 1..n : got <= Len(source) - at}

\* Header::read: Signature::read (read_exact), Version::read (one call of
\* read, which delivers got bytes) and six times Section::read (read_u32
\* twice: read_exact of the 48 bytes)
Header_read(source, got) ==
  LET sig == read_exact(source, 0, 4)
      ver == read(source, sig.pos, 4, got)
      sections == read_exact(source, ver.pos, 48)
  IN IF ~sig.ok THEN [ok |-> FALSE, header |-> <<>>, pos |-> sig.pos]
     ELSE IF ~sections.ok THEN [ok |-> FALSE, header |-> <<>>, pos |-> sections.pos]
     ELSE [ok |-> TRUE, header |-> header_read(sig.bytes \o ver.bytes \o sections.bytes),
           pos |-> sections.pos]

MaxSourceLen == 58

\* sources of up to MaxSourceLen bytes; byte i of a source is i
Sources == {[i \in 1..n |-> i] : n \in 0..MaxSourceLen}

\* Header::read from a reader over the source
HeaderRead ==
  /\ pc = "source"
  /\ \E got \in Delivered(text, 4, 4) :
       LET r == Header_read(text, got)
       IN /\ made' = r
          /\ pos' = r.pos
  /\ pc' = "header read"
  /\ UNCHANGED valuevars
  /\ UNCHANGED devars
  /\ UNCHANGED <<text, shown, ser, stack, events, file, header, state, result, trace>>

InitHeader ==
  /\ pc = "source"
  /\ text \in Sources
  /\ made = <<>>
  /\ shown = <<>>
  /\ ser = Serializer
  /\ stack = <<>>
  /\ events = <<>>
  /\ file = <<>>
  /\ header = <<>>
  /\ pos = 0
  /\ state = Finish
  /\ result = <<>>
  /\ trace = <<>>
  /\ input = <<>>
  /\ outcome = <<>>
  /\ peeked = <<>>
  /\ taken = <<>>

NextHeader == HeaderRead

SpecHeader == InitHeader /\ [][NextHeader]_vars

----------------------------------------------------------------------------
(* header.rs: Header::token_count in 32 bits *)

\* a number as <<high, low>>: high * 65536 + low with low below 65536; a u32
\* has its high part below 65536 too
Wide(high, low) == <<high, low>>
Plus(a, b) == Wide(a[1] + b[1] + (a[2] + b[2]) \div 65536, (a[2] + b[2]) % 65536)
Less(a, b) == a[1] < b[1] \/ (a[1] = b[1] /\ a[2] < b[2])
Greatest(a, b) == IF Less(a, b) THEN b ELSE a
FitsU32(a) == a[1] < 65536

\* the low 32 bits of a number
WrapU32(a) == Wide(a[1] % 65536, a[2])

\* Header::token_count over the u32 counts of the header:
\* max((structs.count + list_indices.count) * 2, fields.count) as usize, where
\* an operation that overflows panics in a build with overflow checks
\* ("debug") and keeps the low 32 bits in one without ("release")
Header_token_count(structs, fields, list_indices, build) ==
  LET sum == Plus(structs, list_indices)
      size == Plus(WrapU32(sum), WrapU32(sum))
  IN IF build = "debug" /\ (~FitsU32(sum) \/ ~FitsU32(size)) THEN <<"panic">>
     ELSE <<"Ok", Greatest(WrapU32(size), fields)>>

\* the counts a header may hold: 0, 1, 2, 0x3FFFFFFF, 0x40000000, 0x7FFFFFFF,
\* 0x80000000 and 0xFFFFFFFF
Counts ==
  { Wide(0, 0), Wide(0, 1), Wide(0, 2), Wide(16383, 65535), Wide(16384, 0),
    Wide(32767, 65535), Wide(32768, 0), Wide(65535, 65535) }

\* header.token_count() in a build
TokenCount(build) ==
  /\ pc = "counts"
  /\ shown' = Header_token_count(input.structs, input.fields, input.list_indices, build)
  /\ pc' = "counted"
  /\ UNCHANGED filevars
  /\ UNCHANGED devars
  /\ UNCHANGED <<text, made, input, outcome>>

InitCount ==
  /\ pc = "counts"
  /\ input \in [structs : Counts, fields : Counts, list_indices : Counts]
  /\ text = <<>>
  /\ made = <<>>
  /\ shown = <<>>
  /\ ser = Serializer
  /\ stack = <<>>
  /\ events = <<>>
  /\ file = <<>>
  /\ header = <<>>
  /\ pos = 0
  /\ state = Finish
  /\ result = <<>>
  /\ trace = <<>>
  /\ outcome = <<>>
  /\ peeked = <<>>
  /\ taken = <<>>

NextCount == \E build \in {"debug", "release"} : TokenCount(build)

SpecCount == InitCount /\ [][NextCount]_vars

----------------------------------------------------------------------------
(* Labels, signatures, localized strings and the header on their own *)

StringKeyRoundTrip ==
  (pc = "key" /\ shown # <<>>) =>
    /\ made = 2 * input.strings[1] + input.strings[2]
    /\ shown[1] = "language" => shown[2] = input.strings[1]
    /\ shown[1] = "gender" => shown[2] = input.strings[2]
    /\ shown[1] = "u32" => shown[2] = 2 * input.strings[1] + input.strings[2]

\* the key of (Japanese, Female) is 263 and its language is 131
StringKeyRoundTripWitness ==
  /\ pc = "key"
  /\ input.strings = <<131, 1>>
  /\ made = 263
  /\ shown = <<"language", 131>>

\* C32: a LocString becomes the internal form exactly when its str_ref is
\* 0xFFFFFFFF, and the external form with its str_ref and none of its
\* substrings otherwise; in the internal form the keys are the keys listed
\* and each has one text, the last one listed for it
LocStringToGffString ==
  pc = "gff" =>
    LET listed == input.strings
    IN IF input.str_ref = NoStrRef
       THEN /\ made.kind = "Internal"
            /\ DOMAIN made.strings = {listed[i][1] : i \in 1..Len(listed)}
            /\ \A i \in 1..Len(listed) :
                 (\A j \in (i + 1)..Len(listed) : listed[j][1] # listed[i][1])
                   => made.strings[listed[i][1]] = listed[i][2]
       ELSE made = External(input.str_ref)

\* three texts were listed for one key and the last of them is the one kept
LocStringToGffStringWitness ==
  /\ pc = "gff"
  /\ input = LocString(NoStrRef, << <<0, <<>> >>, <<0, <<104>> >>, <<0, <<104, 105>> >> >>)
  /\ made = Internal([k \in {0} |-> <<104, 105>>])

\* C36: a GffString converted to a LocString and back is the GffString it
\* was, whatever the reference and whatever the texts
GffStringRoundTrip ==
  pc = "back" => shown = input

\* the tags the variants with a name are written as
OwnTags == {arm[2] : arm \in Signature_as_ref_arms}

\* C33: a tag of 4 bytes made a Signature and written back gives the same 4
\* bytes, with a name or without; a variant with a name is made exactly of
\* the tag it is written as, and the twenty variants have twenty tags
SignatureRoundTrip ==
  /\ Cardinality(OwnTags) = Cardinality(Signature_as_ref_arms)
  /\ pc \in {"signature", "tag written"} =>
       /\ made.name # "Other" <=> text \in OwnTags
       /\ made.name # "Other" => <<made.name, text>> \in Signature_as_ref_arms
       /\ made.name = "Other" => made.bytes = text
  /\ pc = "tag written" => shown = text

\* "UTC\0" is not UTC: it is kept as it is and written back as it is
SignatureRoundTripWitness ==
  /\ pc = "tag written"
  /\ text = <<85, 84, 67, 0>>
  /\ made = Other(text)
  /\ shown = text

\* C37: when Header::read returns a header it has consumed 56 bytes and the
\* header is the one its fixed positions in the source give, whatever the
\* reader delivers per call; from a source of fewer than 56 bytes it returns
\* an error
HeaderReadExact ==
  pc = "header read" =>
    /\ made.ok => (pos = HeaderSize /\ made.header = header_read(text))
    /\ Len(text) < HeaderSize => ~made.ok

\* C38: token_count returns max(2 * (structs.count + list_indices.count),
\* fields.count) as a number, whatever the three 32-bit counts are
TokenCountExact ==
  pc = "counted" =>
    LET sum == Plus(input.structs, input.list_indices)
    IN shown = <<"Ok", Greatest(Plus(sum, sum), input.fields)>>
----------------------------------------------------------------------------
(* Termination of the parser *)

\* the tokens that the states of the continuation chain will close with,
\* the innermost first
RECURSIVE Closers(_)
Closers(st) ==
  CASE st.kind = "Finish" -> <<>>
    [] st.kind \in {"EndRoot", "EndStruct", "EndItem"} ->
         <<end(st.data).kind>> \o Closers(st.state)
    [] st.kind = "ReadItems" -> <<"ListEnd">> \o Closers(st.state)
    [] OTHER -> Closers(st.state)

\* the closing tokens that a sequence of tokens still waits for, the
\* innermost first, after the ones in open
RECURSIVE Awaited(_, _)
Awaited(tokens, open) ==
  IF tokens = <<>> THEN open
  ELSE CHOOSE rest \in
         {Awaited(Tail(tokens), now) : now \in
            {CASE kind = "RootBegin"   -> <<"RootEnd">> \o open
               [] kind = "StructBegin" -> <<"StructEnd">> \o open
               [] kind = "ItemBegin"   -> <<"ItemEnd">> \o open
               [] kind = "ListBegin"   -> <<"ListEnd">> \o open
               [] kind \in EndKinds \cup {"ListEnd"} ->
                    IF open # <<>> /\ Head(open) = kind THEN Tail(open)
                    ELSE <<"unmatched">> \o open
               [] OTHER -> open : kind \in {Head(tokens).kind}}} : TRUE

RootEnded == trace # <<>> /\ trace[Len(trace)].token = RootEnd

\* C35: for every written file (its structs and lists form a finite tree
\* and every reference lies inside the file) a caller that keeps calling
\* next_token gets RootEnd and leaves the parser in Finish after finitely
\* many calls; every call before that returns exactly one token, and the
\* states the parser holds to return to are, innermost first, exactly the
\* closes of the structs and lists that the tokens have opened and not yet
\* closed, so that after each nested compound the parser is back in the
\* enclosing one.
ParserTerminates ==
  /\ Parsing ~> (Finished /\ RootEnded)
  /\ [][(Parsing /\ state.kind # "Finish") =>
          /\ Len(trace') = Len(trace) + 1
          /\ result' = <<"Ok", trace'[Len(trace')].token>>]_vars
  /\ [](Parsing => Closers(state) = Awaited(Tokens, <<>>))

\* the parser has finished a file with a struct inside an item of a list
ParserTerminatesWitness ==
  /\ Finished /\ RootEnded
  /\ \E i, j, k \in 1..Len(trace) :
       /\ i < j /\ j < k
       /\ trace[i].token.kind = "ListBegin"
       /\ trace[j].token.kind = "ItemBegin"
       /\ trace[k].token.kind = "StructBegin"
       /\ Match(TokenShape, j) > k

====
